---- MODULE Spec2Model ----
(***************************************************************************)
(* A model of the RenderScript support-library JNI layer                   *)
(* (v8/renderscript/jni/android_renderscript_RenderScript.cpp).            *)
(*                                                                         *)
(* The file keeps three process-wide dispatch tables (dispatchTab,         *)
(* ioDispatch, dispatchTabInc), fills them by dlopen + loadSymbols, and    *)
(* forwards every native method to an entry of one of the tables.  The     *)
(* backends behind the tables, dlopen/dlsym and loadSymbols itself are not *)
(* part of the file; they are modelled by their contract and marked so.    *)
(*                                                                         *)
(* Specifications:                                                         *)
(*   SpecLoad     activation of the three tables, one handler per step     *)
(*   SpecRace     activations store by store, against an unlocked dispatch *)
(*   SpecHandoff  script operations and the cross-backend ForEach handoff, *)
(*                one backend call per step, against the backends' threads,*)
(*                for callers that serialize the operations on a Context   *)
(*   SpecScript   the script operations that take mUseInc                  *)
(*   SpecOverlap  the same natives entered by two threads at once          *)
(*   SpecMsg      the backend-to-caller message queue                      *)
(*   and one per group of native methods further down                      *)
(***************************************************************************)
EXTENDS Integers, Sequences, FiniteSets, TLC

VARIABLES
    libs,           \* the libraries installed on the device: name -> exported symbols, or absent
    dispatchTab,    \* static dispatchTable dispatchTab      (line 93)
    ioDispatch,     \* static ioSuppDT ioDispatch            (line 115)
    dispatchTabInc, \* static dispatchTable dispatchTabInc   (line 131)
    lastCall,       \* the most recent native call (or backend event) and what it returned
    failedLoads,    \* history: libraries whose activation has failed so far
    ctxLib,         \* the two contexts the caller holds: the library that minted each, or NULL
    pending,        \* work queued on each context and not yet completed: context -> count
    log,            \* the backend calls the most recent native call to return has made, in order
    inCall,         \* per thread, the native method it is inside and how far it has got
    msgq,           \* the backend-to-caller message queue of context con
    loaderPc,       \* SpecRace: per thread, the activation it is running ("idle" when none)
    loaderLib,      \* SpecRace: per thread, the handle it got from dlopen
    loaderNative,   \* SpecRace: per thread, the useNative argument of its call
    loaderIdx,      \* SpecRace: per thread, how many entries loadSymbols has stored so far
    loaderSched,    \* SpecRace: the thread that ran last, switches made, activations entered
    observed,       \* SpecRace: how the last dispatch found dispatchTab: bound or half-bound
    sent,           \* what the backend received in the most recent ContextSendMessage
    javaData,       \* the caller's array argument of the most recent call: before and after
    alloc,          \* the Allocation the caller holds: its Type and the bytes of its memory
    element,        \* the structured Element the backend created last: its sub-fields
    elemIo,         \* the ids, names and array-sizes arrays of the most recent call: before and after
    objs,           \* what each handle value refers to in the backend
    held,           \* what the most recent native call still has pinned or locked on return
    group           \* closures created, the script group made of them, what its last run executed

vars == <<libs, dispatchTab, ioDispatch, dispatchTabInc, lastCall, failedLoads,
          ctxLib, pending, log, inCall, msgq, loaderPc, loaderLib, loaderNative,
          loaderIdx, loaderSched, observed,
          sent, javaData, alloc, element, elemIo, objs, held, group>>

tableVars == <<dispatchTab, ioDispatch, dispatchTabInc>>
raceVars == <<loaderPc, loaderLib, loaderNative, loaderIdx, loaderSched, observed>>
handoffVars == <<ctxLib, pending, log, inCall>>
objVars == <<objs, held, group>>
jniVars == <<sent, javaData, alloc, element, elemIo, objVars>>
elemVars == <<element, elemIo>>
coreVars == <<libs, tableVars, failedLoads, handoffVars, msgq, raceVars>>
tablesAndQueues == <<libs, tableVars, failedLoads, ctxLib, pending, inCall, msgq, raceVars>>

----------------------------------------------------------------------------
(* Libraries, entry points, tables *)

NULL == "NULL"

LibRS == "libRS.so"
LibRSSupport == "libRSSupport.so"
LibRSSupportIO == "libRSSupportIO.so"

CoreLibs == {LibRS, LibRSSupport}
Libs == {LibRS, LibRSSupport, LibRSSupportIO}

\* The entries of dispatchTable that the modelled native methods call, in the
\* order loadSymbols stores them.
EntrySeq ==
    << "ContextCreate", "ContextFinish", "ContextPeekMessage", "ContextGetMessage",
       "ContextSendMessage", "ObjDestroy", "AllocationGetPointer",
       "AllocationCreateTyped", "AllocationResize1D", "ScriptBindAllocation", "ScriptSetTimeZone",
       "ScriptInvoke", "ScriptInvokeV", "ScriptForEach", "ScriptSetVarI",
       "ScriptSetVarObj", "ScriptSetVarJ", "ScriptSetVarF", "ScriptSetVarD",
       "ScriptSetVarV", "ScriptSetVarVE", "ScriptIntrinsicCreate",
       "ScriptKernelIDCreate", "ScriptFieldIDCreate", "Allocation1DData",
       "Allocation1DElementData", "Allocation2DData", "Allocation3DData",
       "AllocationRead", "ElementCreate2", "ElementGetSubElements",
       "ScriptCCreate", "AllocationCreateFromBitmap", "AllocationCubeCreateFromBitmap",
       "AllocationCopyToBitmap", "AllocationSyncAll", "AllocationCopy2DRange",
       "AllocationCopy3DRange",
       "ClosureCreate", "ScriptGroup2Create", "ScriptGroupCreate", "ScriptGroupSetInput",
       "ScriptGroupSetOutput", "ScriptGroupExecute", "ContextDestroy" >>

Entries == {EntrySeq[i] : i \in 1..Len(EntrySeq)}

\* The entries of ioSuppDT.
IoEntries == {"sAllocationSetSurface"}

SymbolsOf(lib) == IF lib = LibRSSupportIO THEN IoEntries ELSE Entries

\* A table whose every entry is the null pointer (static storage, lines 93, 115, 131).
UnboundTable(entries) == [e \in entries |-> NULL]

\* A table whose every entry points into library lib.
BoundTable(entries, lib) == [e \in entries |-> lib]

FullyBound(tab, lib) == \A e \in DOMAIN tab : tab[e] = lib
HalfBound(tab) == LET e1 == CHOOSE e \in DOMAIN tab : TRUE IN \E e2 \in DOMAIN tab : tab[e1] # tab[e2]

----------------------------------------------------------------------------
(* The platform: which libraries are installed, and what they export *)

\* A library is absent, exports every symbol of its table, or lacks one symbol.
Absent == [present |-> FALSE, syms |-> {}]
Complete(lib) == [present |-> TRUE, syms |-> SymbolsOf(lib)]
Lacking(lib) == [present |-> TRUE,
                 syms |-> SymbolsOf(lib) \ {IF lib = LibRSSupportIO
                                            THEN "sAllocationSetSurface"
                                            ELSE "ScriptForEach"}]

Installations == {f \in [Libs -> {"absent", "complete", "lacking"}] : TRUE}

InstalledAs(kind, lib) ==
    CASE kind = "absent" -> Absent
      [] kind = "complete" -> Complete(lib)
      [] OTHER -> Lacking(lib)

\* dlopen(name, RTLD_LAZY | RTLD_LOCAL): the handle of the library, or NULL.
dlopen(name) == IF libs[name].present THEN name ELSE NULL

\* dlsym(handle, sym) # NULL
Resolves(handle, sym) == sym \in libs[handle].syms

\* loadSymbols(handle, tab) / loadIOSuppSyms(handle, tab): resolve every entry of
\* the table in the library; all-or-nothing.  ok is the value returned, tab the
\* table afterwards.
loadSymbols(handle, tab) ==
    IF \A e \in DOMAIN tab : Resolves(handle, e)
    THEN [ok |-> TRUE, tab |-> BoundTable(DOMAIN tab, handle)]
    ELSE [ok |-> FALSE, tab |-> tab]

----------------------------------------------------------------------------
(* What a native call leaves in lastCall *)

Call(op, flag, ok, why, ret, aux) ==
    [op |-> op, flag |-> flag, ok |-> ok, why |-> why, ret |-> ret, aux |-> aux]

NoCall == Call("none", FALSE, TRUE, "", 0, <<0, 0>>)

LoadOps == {"nLoadSO", "nLoadIOSO", "nIncLoadSO"}

----------------------------------------------------------------------------
(* Activation: nLoadSO, nLoadIOSO, nIncLoadSO *)

\* The library nLoadSO opens for the flag it is given (lines 97-101).
LibName(useNative) == IF useNative THEN LibRS ELSE LibRSSupport

\* (a faulty variant that clears the table before it loads)
Activate_ResetFirst(name, tab) ==
    LET handle == dlopen(name) IN
    IF handle = NULL
    THEN [ok |-> FALSE, why |-> "dlopen", tab |-> UnboundTable(DOMAIN tab)]
    ELSE LET r == loadSymbols(handle, UnboundTable(DOMAIN tab)) IN
         [ok |-> r.ok, why |-> IF r.ok THEN "" ELSE "dlsym", tab |-> r.tab]

\* (a faulty variant that quietly opens the other core library when the one asked for
\* cannot be opened)
Activate_FallsBack(name, tab) ==
    LET other == IF name = LibRS THEN LibRSSupport ELSE LibRS
        handle == IF dlopen(name) # NULL \/ name \notin CoreLibs
                  THEN dlopen(name) ELSE dlopen(other)
    IN
    IF handle = NULL
    THEN [ok |-> FALSE, why |-> "dlopen", tab |-> tab]
    ELSE LET r == loadSymbols(handle, tab) IN
         [ok |-> r.ok, why |-> IF r.ok THEN "" ELSE "dlsym", tab |-> r.tab]

\* What an activation does to the table it is handed (lines 102-112, 119-127,
\* 1396-1406): nothing when dlopen fails, else whatever loadSymbols does.
Activate(name, tab) ==
    LET handle == dlopen(name) IN
    IF handle = NULL
    THEN [ok |-> FALSE, why |-> "dlopen", tab |-> tab]
    ELSE LET r == loadSymbols(handle, tab) IN
         [ok |-> r.ok, why |-> IF r.ok THEN "" ELSE "dlsym", tab |-> r.tab]

\* nLoadSO as one step, for the calls that do not overlap; SpecRace takes the
\* stores of loadSymbols into the live table one by one.
nLoadSO(useNative) ==
    LET r == Activate(LibName(useNative), dispatchTab) IN
    /\ dispatchTab' = r.tab
    /\ lastCall' = Call("nLoadSO", useNative, r.ok, r.why, 0, <<0, 0>>)
    /\ failedLoads' = IF r.ok THEN failedLoads
                      ELSE failedLoads \cup {LibName(useNative)}
    /\ UNCHANGED <<jniVars, libs, ioDispatch, dispatchTabInc, handoffVars, msgq, raceVars>>

nLoadIOSO ==
    LET r == Activate(LibRSSupportIO, ioDispatch) IN
    /\ ioDispatch' = r.tab
    /\ lastCall' = Call("nLoadIOSO", FALSE, r.ok, r.why, 0, <<0, 0>>)
    /\ UNCHANGED <<jniVars, libs, dispatchTab, dispatchTabInc, failedLoads, handoffVars,
                   msgq, raceVars>>

\* nIncLoadSO (lines 1393-1407): libRSSupport.so is loaded into dispatchTabInc
\* (line 1401).
nIncLoadSO ==
    LET r == Activate(LibRSSupport, dispatchTabInc) IN
    /\ dispatchTabInc' = r.tab
    /\ dispatchTab' = dispatchTab
    /\ lastCall' = Call("nIncLoadSO", FALSE, r.ok, r.why, 0, <<0, 0>>)
    /\ UNCHANGED <<jniVars, libs, ioDispatch, failedLoads, handoffVars, msgq, raceVars>>

----------------------------------------------------------------------------
(* Initial states *)

InitTables ==
    /\ dispatchTab = UnboundTable(Entries)
    /\ ioDispatch = UnboundTable(IoEntries)
    /\ dispatchTabInc = UnboundTable(Entries)
    /\ lastCall = NoCall
    /\ failedLoads = {}

\* No thread-protected native method is running.
MaxThreads == 2

\* The threads that call native methods.
Threads == 1..MaxThreads

NoInCall == [op |-> "none", flag |-> FALSE, todo |-> <<>>, waits |-> NULL, log |-> <<>>]

InitHandoff ==
    /\ ctxLib = [c \in {"con", "incCon"} |-> NULL]
    /\ pending = [c \in {"con", "incCon"} |-> 0]
    /\ log = <<>>
    /\ inCall = [t \in Threads |-> NoInCall]

\* The threads that may run an activation, how often a run lets one of them
\* cut into the activation of the other, and how many activations a run enters.
LoaderThreads == {1, 2}
MaxSwitches == 1
MaxActivations == 2

InitRace ==
    /\ loaderPc = [t \in LoaderThreads |-> "idle"]
    /\ loaderLib = [t \in LoaderThreads |-> NULL]
    /\ loaderNative = [t \in LoaderThreads |-> FALSE]
    /\ loaderIdx = [t \in LoaderThreads |-> 0]
    /\ loaderSched = [last |-> 0, switches |-> 0, begun |-> 0]
    /\ observed = "nothing"

\* A Java array argument: a null reference, or its elements.
JArray(null, ints) == [null |-> null, ints |-> ints]
NullArray == JArray(TRUE, <<>>)

\* What ContextSendMessage was handed: the id, whether the data pointer was
\* non-null, the words behind it, and the length in bytes.
Sent(id, hasData, data, len) == [id |-> id, hasData |-> hasData, data |-> data, len |-> len]

\* An Allocation: whether it exists, the byte sizes of the components of its
\* Element, its dimensions and its memory.
Allocation(made, comps, dims, bytes) ==
    [made |-> made, comps |-> comps, dims |-> dims, bytes |-> bytes]
NoAllocation == Allocation(FALSE, <<>>, <<0, 0, 0>>, <<>>)

MaxHandles == 2

\* The values a handle can take, besides 0.
Handles == 1..MaxHandles

\* No closure and no script group created yet, nothing executed.
NoGroup == [closures |-> <<>>, id |-> 0, listed |-> <<>>, declared |-> {}, edges |-> {},
            ran |-> <<>>, why |-> ""]

\* The three parallel arrays of nElementCreate2 and nElementGetSubElements.
FieldArrays(ids, names, arraySizes) == [ids |-> ids, names |-> names, arraySizes |-> arraySizes]

InitJni ==
    /\ sent = Sent(0, FALSE, <<>>, 0)
    /\ javaData = [before |-> NullArray, after |-> NullArray]
    /\ alloc = NoAllocation
    /\ element = [made |-> FALSE, fields |-> <<>>]
    /\ elemIo = [before |-> FieldArrays(<<>>, <<>>, <<>>), after |-> FieldArrays(<<>>, <<>>, <<>>)]
    /\ objs = [h \in Handles |-> "free"]
    /\ held = {}
    /\ group = NoGroup

InitLoad ==
    /\ \E f \in Installations : libs = [l \in Libs |-> InstalledAs(f[l], l)]
    /\ InitTables
    /\ InitHandoff
    /\ InitRace
    /\ InitJni
    /\ msgq = <<>>

NextLoad ==
    \/ \E useNative \in BOOLEAN : nLoadSO(useNative)
    \/ nLoadIOSO
    \/ nIncLoadSO

SpecLoad == InitLoad /\ [][NextLoad]_vars

----------------------------------------------------------------------------
(* Activations store by store, on threads of their own, against a thread   *)
(* that dispatches without a lock                                          *)

\* The table an activation fills and the order in which loadSymbols or
\* loadIOSuppSyms stores its entries (lines 107, 123, 1401).
LoaderEntries(op) == IF op = "nLoadIOSO" THEN <<"sAllocationSetSurface">> ELSE EntrySeq

\* Thread t runs next.  It is a switch when the thread that ran last is another
\* one and is still inside its activation; a run makes at most MaxSwitches of
\* them, and enters at most MaxActivations activations.
Switch(t) == loaderSched.last \notin {t, 0} /\ loaderPc[loaderSched.last] # "idle"

Scheduled(t) ==
    /\ Switch(t) => loaderSched.switches < MaxSwitches
    /\ loaderSched' = [loaderSched EXCEPT
                          !.last = t,
                          !.switches = @ + IF Switch(t) THEN 1 ELSE 0,
                          !.begun = @ + IF loaderPc[t] = "idle" THEN 1 ELSE 0]

\* An activation entered on thread t, up to the point where loadSymbols starts
\* to store into the table (lines 96-107, 117-123, 1395-1401).  The three
\* methods take no lock, and nLoadSO and nLoadIOSO are registered above the
\* thread-protected ones (lines 1502-1503, 1514), so t may enter while the
\* other thread is inside an activation.  A failed dlopen or a failed resolution returns false at once.
\* The threads are interchangeable: the activation is given to the first that
\* is free.
RaceBegin(t, op, useNative, name) ==
    /\ loaderPc[t] = "idle"
    /\ \A u \in LoaderThreads : loaderPc[u] = "idle" => t <= u
    /\ loaderSched.begun < MaxActivations
    /\ Scheduled(t)
    /\ LET handle == dlopen(name)
           entries == LoaderEntries(op)
           resolvesAll == /\ handle # NULL
                          /\ \A i \in 1..Len(entries) : Resolves(handle, entries[i])
       IN
       /\ loaderPc' = [loaderPc EXCEPT ![t] = IF resolvesAll THEN op ELSE "idle"]
       /\ loaderLib' = [loaderLib EXCEPT ![t] = IF resolvesAll THEN handle ELSE NULL]
       /\ loaderNative' = [loaderNative EXCEPT ![t] = resolvesAll /\ useNative]
       /\ loaderIdx' = [loaderIdx EXCEPT ![t] = 0]
       /\ lastCall' = IF resolvesAll THEN lastCall
                      ELSE Call(op, useNative, FALSE,
                                IF handle = NULL THEN "dlopen" ELSE "dlsym", 0, <<0, 0>>)
       /\ failedLoads' = IF resolvesAll \/ op # "nLoadSO" THEN failedLoads
                         ELSE failedLoads \cup {name}
    /\ UNCHANGED <<jniVars, libs, tableVars, handoffVars, msgq, observed>>

RaceLoadBegin(t, useNative) == RaceBegin(t, "nLoadSO", useNative, LibName(useNative))

\* One store of loadSymbols on thread t into the table it was handed by
\* reference (lines 107, 123, 1401): each table is a plain struct of function
\* pointers, each entry its own store.
RaceStore(t) ==
    /\ loaderPc[t] # "idle"
    /\ loaderIdx[t] < Len(LoaderEntries(loaderPc[t]))
    /\ Scheduled(t)
    /\ LET e == LoaderEntries(loaderPc[t])[loaderIdx[t] + 1] IN
       /\ dispatchTab' = IF loaderPc[t] = "nLoadSO"
                         THEN [dispatchTab EXCEPT ![e] = loaderLib[t]] ELSE dispatchTab
       /\ dispatchTabInc' = IF loaderPc[t] = "nIncLoadSO"
                            THEN [dispatchTabInc EXCEPT ![e] = loaderLib[t]]
                            ELSE dispatchTabInc
       /\ ioDispatch' = IF loaderPc[t] = "nLoadIOSO"
                        THEN [ioDispatch EXCEPT ![e] = loaderLib[t]] ELSE ioDispatch
    /\ loaderIdx' = [loaderIdx EXCEPT ![t] = @ + 1]
    /\ UNCHANGED <<jniVars, libs, lastCall, failedLoads,
                   handoffVars, msgq, loaderPc, loaderLib, loaderNative, observed>>

\* loadSymbols has stored every entry; the activation on thread t returns true
\* (lines 111-112, 127, 1405-1406).
RaceLoadReturn(t) ==
    /\ loaderPc[t] # "idle"
    /\ loaderIdx[t] = Len(LoaderEntries(loaderPc[t]))
    /\ Scheduled(t)
    /\ loaderPc' = [loaderPc EXCEPT ![t] = "idle"]
    /\ loaderLib' = [loaderLib EXCEPT ![t] = NULL]
    /\ loaderNative' = [loaderNative EXCEPT ![t] = FALSE]
    /\ loaderIdx' = [loaderIdx EXCEPT ![t] = 0]
    /\ lastCall' = Call(loaderPc[t], loaderNative[t], TRUE, "", 0, <<0, 0>>)
    /\ UNCHANGED <<jniVars, libs, tableVars, failedLoads, handoffVars, msgq, observed>>

\* Another thread enters a native method that calls dispatchTab.<e>(...) (for
\* example nContextFinish, line 142).  No lock is taken: the call goes through
\* whatever the entry holds at that moment.  A null entry cannot be called.
Dispatch(e) ==
    /\ dispatchTab[e] # NULL
    /\ observed' = IF HalfBound(dispatchTab) THEN "half-bound" ELSE "bound"
    /\ lastCall' = Call("dispatch", FALSE, TRUE, "", 0, <<0, 0>>)
    /\ UNCHANGED <<jniVars, libs, tableVars, failedLoads, handoffVars, msgq,
                   loaderPc, loaderLib, loaderNative, loaderIdx, loaderSched>>

NextRace ==
    \/ \E t \in LoaderThreads, useNative \in BOOLEAN : RaceLoadBegin(t, useNative)
    \/ \E t \in LoaderThreads : RaceBegin(t, "nIncLoadSO", FALSE, LibRSSupport)
    \/ \E t \in LoaderThreads : RaceBegin(t, "nLoadIOSO", FALSE, LibRSSupportIO)
    \/ \E t \in LoaderThreads : RaceStore(t)
    \/ \E t \in LoaderThreads : RaceLoadReturn(t)
    \/ \E e \in Entries : Dispatch(e)

\* The devices the race is explored on: the IO extension library complete.
InitRaceSpec ==
    /\ \E f \in Installations :
          /\ f[LibRSSupportIO] = "complete"
          /\ libs = [l \in Libs |-> InstalledAs(f[l], l)]
    /\ InitTables
    /\ InitHandoff
    /\ InitRace
    /\ InitJni
    /\ msgq = <<>>

SpecRace == InitRaceSpec /\ [][NextRace]_vars

----------------------------------------------------------------------------
(* Claims about activation *)

\* The library a caller of nLoadSO(useNative) asks for.
Expected(useNative) == IF useNative THEN "libRS.so" ELSE "libRSSupport.so"

\* C4: a failed activation (nLoadSO, nIncLoadSO or nLoadIOSO; dlopen failed or an
\* entry point did not resolve) leaves the three dispatch tables exactly as they
\* were before the call, so a table bound by an earlier successful activation is
\* still bound to that library.
C4_FailedActivationLeavesTable ==
    [][(lastCall'.op \in LoadOps /\ ~lastCall'.ok) => UNCHANGED tableVars]_vars

\* C4 witness: nLoadSO has just failed on an unresolved entry point while
\* dispatchTab was, and still is, fully bound to the fallback library.
C4_Witness ==
    /\ lastCall.op = "nLoadSO" /\ ~lastCall.ok /\ lastCall.why = "dlsym"
    /\ FullyBound(dispatchTab, LibRSSupport)

\* C5: no native call ever dispatches through a table in which some entries
\* are bound and others are not, or are bound to another library; this includes
\* calls made while nLoadSO is running on another thread.
C5_NoHalfBoundDispatch == observed # "half-bound"

\* C6: once nLoadSO succeeds, every entry of dispatchTab is bound to the library
\* of that call and none to a library whose activation failed earlier.
C6_RetrySucceedsCleanly ==
    (lastCall.op = "nLoadSO" /\ lastCall.ok) =>
        /\ FullyBound(dispatchTab, Expected(lastCall.flag))
        /\ \A f \in failedLoads : \A e \in Entries : dispatchTab[e] # f

\* C6 witness: nLoadSO for one backend failed earlier and nLoadSO for the other
\* backend has now succeeded.
C6_Witness ==
    /\ lastCall.op = "nLoadSO" /\ lastCall.ok
    /\ Expected(~lastCall.flag) \in failedLoads

\* C7: Primary, Fallback and Incremental each have a table of their own, so
\* activating one backend leaves the table of another as it was: when nLoadSO
\* is called while dispatchTab is bound to the other of the two libraries, the
\* table is the same after the call, and both backends stay usable.
C7_ActivationLeavesOtherTables ==
    [][(/\ lastCall'.op = "nLoadSO"
        /\ FullyBound(dispatchTab, Expected(~lastCall'.flag)))
       => dispatchTab' = dispatchTab]_vars

\* C8: every entry that nLoadSO(useNative) binds comes from the library of that
\* flag (libRS.so for true, libRSSupport.so for false), and dispatchTab never
\* holds entries of both libraries.
C8_BackendIsolation ==
    /\ [](~(\E e1, e2 \in Entries :
              dispatchTab[e1] = "libRS.so" /\ dispatchTab[e2] = "libRSSupport.so"))
    /\ [][\A e \in Entries :
            dispatchTab'[e] # dispatchTab[e] =>
                \E t \in LoaderThreads :
                    /\ loaderPc[t] = "nLoadSO"
                    /\ dispatchTab'[e] = Expected(loaderNative[t])]_vars

----------------------------------------------------------------------------
(* Contexts and the backends' queued work *)

MaxPending == 2

Contexts == {"con", "incCon"}

\* The table a context handle belongs to: con comes from nContextCreate
\* (dispatchTab.ContextCreate, line 259), incCon from nIncContextCreate
\* (dispatchTabInc.ContextCreate, line 1437).
OwnerTable(ctx) == IF ctx = "con" THEN "dispatchTab" ELSE "dispatchTabInc"

TableNamed(t) == IF t = "dispatchTab" THEN dispatchTab ELSE dispatchTabInc

\* The caller holds context ctx, minted by the library its table is bound to.
CallerHolds(ctx) ==
    /\ ctxLib[ctx] # NULL
    /\ ctxLib[ctx] = TableNamed(OwnerTable(ctx))["ContextCreate"]

\* One call through a dispatch table: tab.fn((RsContext)ctx, ...).
BCall(tab, fn, ctx) == [tab |-> tab, fn |-> fn, ctx |-> ctx]

\* Backend entry points that queue script code to run asynchronously.
KernelFns == {"ScriptForEach", "ScriptInvoke", "ScriptInvokeV"}

\* The backend's side of a call, up to the point where the call returns or
\* starts to wait: a kernel or invokable is queued on the context it is given,
\* every other entry leaves the queues alone.
BackendEffect(p, c) ==
    IF c.fn \in KernelFns THEN [p EXCEPT ![c.ctx] = @ + 1]
    ELSE p

\* The calls of one native method, each with the queues as it found them.
RECURSIVE Annotate(_, _)
Annotate(p, calls) ==
    IF calls = <<>> THEN <<>>
    ELSE <<[call |-> Head(calls), pend |-> p]>>
         \o Annotate(BackendEffect(p, Head(calls)), Tail(calls))

\* Thread t is inside a native method that makes its backend calls one by one.
Inside(t) == inCall[t].op # "none"

\* No thread is inside such a method.  Nothing in this file makes a thread
\* wait for this: the methods registered below line 1514 ("thread protected
\* in java") take no lock of their own, and a second thread that calls one
\* while another is inside enters it.  Callers that serialize the operations
\* on a Context, as the design requires of them, call only when Idle holds.
Idle == \A t \in Threads : ~Inside(t)

\* A native method is entered by a thread that is in none (the first such
\* thread): `calls` are the backend calls its statements make, in order.
Issue(op, mUseInc, calls) ==
    /\ \E t \in Threads :
          /\ ~Inside(t)
          /\ \A u \in Threads : u < t => Inside(u)
          /\ inCall' = [inCall EXCEPT ![t] = [op |-> op, flag |-> mUseInc, todo |-> calls,
                                              waits |-> NULL, log |-> <<>>]]
    /\ log' = <<>>
    /\ lastCall' = Call("running", mUseInc, TRUE, op, 0, <<0, 0>>)
    /\ UNCHANGED <<jniVars, libs, tableVars, failedLoads, ctxLib, pending, msgq, raceVars>>

\* The method thread t is in makes its next backend call, through whatever the
\* table entry holds at that moment; calling through a null entry is not a
\* call the process survives.  ContextFinish does not return yet: it waits for
\* the context it was given.  The count of queued work stays within MaxPending.
BackendCall(t) ==
    /\ inCall[t].todo # <<>>
    /\ inCall[t].waits = NULL
    /\ LET c == Head(inCall[t].todo)
           lib == TableNamed(c.tab)[c.fn]
           blocks == c.fn = "ContextFinish"
       IN
       /\ lib # NULL
       /\ c.fn \in KernelFns => pending[c.ctx] < MaxPending
       /\ pending' = BackendEffect(pending, c)
       /\ inCall' = [inCall EXCEPT ![t].todo = IF blocks THEN @ ELSE Tail(@),
                                   ![t].waits = IF blocks THEN c.ctx ELSE NULL,
                                   ![t].log = Append(@, [call |-> c, pend |-> pending])]
    /\ UNCHANGED <<jniVars, libs, tableVars, lastCall, failedLoads, ctxLib, log, msgq,
                   raceVars>>

\* ContextFinish returns to the method thread t is in once nothing is pending
\* on the context it was given.
FinishReturns(t) ==
    /\ inCall[t].waits # NULL
    /\ pending[inCall[t].waits] = 0
    /\ inCall' = [inCall EXCEPT ![t].todo = Tail(@), ![t].waits = NULL]
    /\ UNCHANGED <<jniVars, libs, tableVars, lastCall, failedLoads, ctxLib, pending, log,
                   msgq, raceVars>>

\* The method thread t is in has made all its calls and returns; log holds the
\* calls it made, each with the queues as it found them.
Return(t) ==
    /\ Inside(t)
    /\ inCall[t].todo = <<>>
    /\ lastCall' = Call(inCall[t].op, inCall[t].flag, TRUE, "", 0, <<0, 0>>)
    /\ log' = inCall[t].log
    /\ inCall' = [inCall EXCEPT ![t] = NoInCall]
    /\ UNCHANGED <<jniVars, libs, tableVars, failedLoads, ctxLib, pending, msgq, raceVars>>

\* The backend completes one piece of queued work on its own threads.
BackendComplete(ctx) ==
    /\ pending[ctx] > 0
    /\ pending' = [pending EXCEPT ![ctx] = @ - 1]
    /\ lastCall' = Call("BackendComplete", FALSE, TRUE, ctx, 0, <<0, 0>>)
    /\ UNCHANGED <<jniVars, libs, tableVars, failedLoads, ctxLib, log, inCall, msgq,
                   raceVars>>

\* nContextCreate / nIncContextCreate: every call asks the backend for a
\* context and returns its handle, which is 0 when the backend could not
\* create one.  The caller holds the context it was given last; a new context
\* has nothing queued and no message.
ContextCreateVia(op, tab, ctx, made) ==
    /\ TableNamed(tab)["ContextCreate"] # NULL
    /\ ctxLib' = IF made THEN [ctxLib EXCEPT ![ctx] = TableNamed(tab)["ContextCreate"]]
                 ELSE ctxLib
    /\ pending' = IF made THEN [pending EXCEPT ![ctx] = 0] ELSE pending
    /\ msgq' = IF made /\ ctx = "con" THEN <<>> ELSE msgq
    /\ log' = <<>>
    /\ lastCall' = Call(op, FALSE, made, ctx, IF made THEN 1 ELSE 0, <<0, 0>>)
    /\ UNCHANGED <<jniVars, libs, tableVars, failedLoads, inCall, raceVars>>

nContextCreate(made) == ContextCreateVia("nContextCreate", "dispatchTab", "con", made)

nIncContextCreate(made) ==
    ContextCreateVia("nIncContextCreate", "dispatchTabInc", "incCon", made)

\* nContextDestroy / nIncContextDestroy (lines 272-277, 1447-1452): the backend
\* the table points to is told to destroy the context; the caller holds it no
\* longer.  What was queued on it is not waited for.
ContextDestroyVia(op, tab, ctx) ==
    /\ TableNamed(tab)["ContextDestroy"] # NULL
    /\ ctxLib' = [ctxLib EXCEPT ![ctx] = NULL]
    /\ msgq' = IF ctx = "con" THEN <<>> ELSE msgq
    /\ log' = Annotate(pending, <<BCall(tab, "ContextDestroy", ctx)>>)
    /\ lastCall' = Call(op, FALSE, TRUE, ctx, 0, <<0, 0>>)
    /\ UNCHANGED <<jniVars, libs, tableVars, failedLoads, pending, inCall, raceVars>>

nContextDestroy(con) == ContextDestroyVia("nContextDestroy", "dispatchTab", con)

nIncContextDestroy(con) == ContextDestroyVia("nIncContextDestroy", "dispatchTabInc", con)

nContextFinish(con) ==
    Issue("nContextFinish", FALSE, <<BCall("dispatchTab", "ContextFinish", con)>>)

nIncContextFinish(con) ==
    Issue("nIncContextFinish", FALSE, <<BCall("dispatchTabInc", "ContextFinish", con)>>)

----------------------------------------------------------------------------
(* Script operations that take mUseInc (lines 944-1094, 1248-1282) *)

\* The handle a backend create returns: the address of the new object, which
\* is the lowest value that refers to nothing yet, or 0 when it creates nothing.
NewHandle(o, made) ==
    IF made /\ \E h \in Handles : o[h] = "free"
    THEN CHOOSE h \in Handles : o[h] = "free" /\ \A k \in Handles : o[k] = "free" => h <= k
    ELSE 0

\* What a create method leaves behind: the object under its new handle, the
\* backend calls it made, what it still holds, and the handle as its result.
Created(op, flag, id, kind, calls, left, aux) ==
    /\ objs' = IF id = 0 THEN objs ELSE [objs EXCEPT ![id] = kind]
    /\ held' = left
    /\ log' = Annotate(pending, calls)
    /\ lastCall' = Call(op, flag, id # 0, "", id, aux)
    /\ UNCHANGED <<tablesAndQueues, sent, alloc, elemVars, group>>

\* if (mUseInc) dispatchTabInc.fn(con, ...) else dispatchTab.fn(con, ...)
Either(fn, con, mUseInc) ==
    <<BCall(IF mUseInc THEN "dispatchTabInc" ELSE "dispatchTab", fn, con)>>

nScriptBindAllocation(con, mUseInc) ==
    Issue("nScriptBindAllocation", mUseInc, Either("ScriptBindAllocation", con, mUseInc))

nScriptSetVarI(con, mUseInc) ==
    Issue("nScriptSetVarI", mUseInc, Either("ScriptSetVarI", con, mUseInc))

nScriptSetVarObj(con, mUseInc) ==
    Issue("nScriptSetVarObj", mUseInc, Either("ScriptSetVarObj", con, mUseInc))

nScriptSetVarJ(con, mUseInc) ==
    Issue("nScriptSetVarJ", mUseInc, Either("ScriptSetVarJ", con, mUseInc))

nScriptSetVarF(con, mUseInc) ==
    Issue("nScriptSetVarF", mUseInc, Either("ScriptSetVarF", con, mUseInc))

nScriptSetVarD(con, mUseInc) ==
    Issue("nScriptSetVarD", mUseInc, Either("ScriptSetVarD", con, mUseInc))

nScriptSetVarV(con, mUseInc) ==
    Issue("nScriptSetVarV", mUseInc, Either("ScriptSetVarV", con, mUseInc))

nScriptSetVarVE(con, mUseInc) ==
    Issue("nScriptSetVarVE", mUseInc, Either("ScriptSetVarVE", con, mUseInc))

nScriptSetTimeZone(con, mUseInc) ==
    Issue("nScriptSetTimeZone", mUseInc, Either("ScriptSetTimeZone", con, mUseInc))

nScriptInvoke(con, mUseInc) ==
    Issue("nScriptInvoke", mUseInc, Either("ScriptInvoke", con, mUseInc))

nScriptInvokeV(con, mUseInc) ==
    Issue("nScriptInvokeV", mUseInc, Either("ScriptInvokeV", con, mUseInc))

\* A create method that makes one backend call and returns the handle the
\* backend returns: return (jlong)(uintptr_t)dispatchTab.X(con, ...).
ScriptObjCreate(op, kind, calls, mUseInc, made) ==
    /\ \A i \in 1..Len(calls) : TableNamed(calls[i].tab)[calls[i].fn] # NULL
    /\ Created(op, mUseInc, NewHandle(objs, made), kind, calls, {}, <<0, 0>>)
    /\ UNCHANGED javaData

nScriptIntrinsicCreate(con, mUseInc, made) ==
    ScriptObjCreate("nScriptIntrinsicCreate", "Script",
                    Either("ScriptIntrinsicCreate", con, mUseInc), mUseInc, made)

nScriptKernelIDCreate(con, mUseInc, made) ==
    ScriptObjCreate("nScriptKernelIDCreate", "KernelID",
                    Either("ScriptKernelIDCreate", con, mUseInc), mUseInc, made)

\* Both branches of nScriptFieldIDCreate call dispatchTab (lines 1277-1281).
nScriptFieldIDCreate(con, mUseInc, made) ==
    ScriptObjCreate("nScriptFieldIDCreate", "FieldID",
                    IF mUseInc THEN <<BCall("dispatchTab", "ScriptFieldIDCreate", con)>>
                    ELSE <<BCall("dispatchTab", "ScriptFieldIDCreate", con)>>,
                    mUseInc, made)

----------------------------------------------------------------------------
(* ForEach and the cross-backend handoff (lines 1096-1195) *)

\* (a faulty variant that starts the incremental kernel before draining the producer)
ForEachCalls_DrainLate(con, incCon, mUseInc) ==
    IF mUseInc
    THEN << BCall("dispatchTabInc", "ScriptForEach", incCon),
            BCall("dispatchTab", "ContextFinish", con),
            BCall("dispatchTabInc", "ContextFinish", incCon) >>
    ELSE << BCall("dispatchTab", "ScriptForEach", con) >>

\* nScriptForEach (lines 1101-1111)
ForEachCalls(con, incCon, mUseInc) ==
    IF mUseInc
    THEN << BCall("dispatchTab", "ContextFinish", con),
            BCall("dispatchTabInc", "ScriptForEach", incCon),
            BCall("dispatchTabInc", "ContextFinish", incCon) >>
    ELSE << BCall("dispatchTab", "ScriptForEach", con) >>

\* nScriptForEachV (lines 1120-1130)
ForEachVCalls(con, incCon, mUseInc) ==
    IF mUseInc
    THEN << BCall("dispatchTab", "ContextFinish", con),
            BCall("dispatchTabInc", "ScriptForEach", incCon),
            BCall("dispatchTabInc", "ContextFinish", incCon) >>
    ELSE << BCall("dispatchTab", "ScriptForEach", con) >>

\* nScriptForEachClipped (lines 1151-1161)
ForEachClippedCalls(con, incCon, mUseInc) ==
    IF mUseInc
    THEN << BCall("dispatchTab", "ContextFinish", con),
            BCall("dispatchTabInc", "ScriptForEach", incCon),
            BCall("dispatchTabInc", "ContextFinish", incCon) >>
    ELSE << BCall("dispatchTab", "ScriptForEach", con) >>

\* nScriptForEachClippedV (lines 1183-1193); the last call of the first branch
\* is dispatchTabInc.ContextFinish((RsContext)(RsContext)con), line 1188.
ForEachClippedVCalls(con, incCon, mUseInc) ==
    IF mUseInc
    THEN << BCall("dispatchTab", "ContextFinish", con),
            BCall("dispatchTabInc", "ScriptForEach", incCon),
            BCall("dispatchTabInc", "ContextFinish", con) >>
    ELSE << BCall("dispatchTab", "ScriptForEach", con) >>

nScriptForEach(con, incCon, mUseInc) ==
    Issue("nScriptForEach", mUseInc, ForEachCalls(con, incCon, mUseInc))

nScriptForEachV(con, incCon, mUseInc) ==
    Issue("nScriptForEachV", mUseInc, ForEachVCalls(con, incCon, mUseInc))

nScriptForEachClipped(con, incCon, mUseInc) ==
    Issue("nScriptForEachClipped", mUseInc, ForEachClippedCalls(con, incCon, mUseInc))

nScriptForEachClippedV(con, incCon, mUseInc) ==
    Issue("nScriptForEachClippedV", mUseInc, ForEachClippedVCalls(con, incCon, mUseInc))

----------------------------------------------------------------------------
(* The backend-to-caller message queue (lines 306-339) *)

MaxQueue == 2
MaxMsgId == 2
MaxPayload == 2

\* A queued message: its id (never 0, the "no message" value), its sub-id and
\* the number of 32-bit words of its payload.
Messages == [id : 1..MaxMsgId, subId : {0, 1}, len : 0..MaxPayload]

\* The backend raises a message for the caller (a fault or a notification of a
\* kernel), at a time of its own choosing.
BackendPost(m) ==
    /\ CallerHolds("con")
    /\ Len(msgq) < MaxQueue
    /\ msgq' = Append(msgq, m)
    /\ lastCall' = Call("BackendPost", FALSE, TRUE, "", m.id, <<m.subId, 4 * m.len>>)
    /\ UNCHANGED <<jniVars, libs, tableVars, failedLoads, handoffVars, raceVars>>

\* ContextPeekMessage(con, &receiveLen, sizeof(receiveLen), &subID, sizeof(subID)):
\* the head message's id, byte length and sub-id, the queue left as it is; id 0
\* when nothing is queued.
ContextPeekMessage(q) ==
    IF q = <<>>
    THEN [id |-> 0, receiveLen |-> 0, subID |-> 0, q |-> q]
    ELSE [id |-> Head(q).id, receiveLen |-> 4 * Head(q).len, subID |-> Head(q).subId,
          q |-> q]

\* ContextGetMessage(con, data, dataLen, &receiveLen, ..., &subID, ...): removes
\* the head message when dataLen bytes can hold it and returns its id; returns 0
\* with receiveLen set and the queue unchanged when the buffer is too small
\* (the case lines 318-321 name), and 0 with receiveLen 0 when nothing is queued.
ContextGetMessage(q, dataLen) ==
    IF q = <<>>
    THEN [id |-> 0, receiveLen |-> 0, subID |-> 0, q |-> q]
    ELSE IF dataLen < 4 * Head(q).len
    THEN [id |-> 0, receiveLen |-> 4 * Head(q).len, subID |-> Head(q).subId, q |-> q]
    ELSE [id |-> Head(q).id, receiveLen |-> 4 * Head(q).len, subID |-> Head(q).subId,
          q |-> Tail(q)]

\* (a faulty variant of nContextPeekMessage that asks the backend for the message itself)
PeekCall_Consuming(q) == ContextGetMessage(q, 4 * MaxPayload)

\* The backend call nContextPeekMessage makes (lines 333-334).
PeekCall(q) == ContextPeekMessage(q)

\* auxData as nContextPeekMessage leaves it (lines 335-336):
\* auxDataPtr[0] = (jint)subID; auxDataPtr[1] = (jint)receiveLen.
PeekAux(r) == <<r.subID, r.receiveLen>>

nContextPeekMessage(con) ==
    /\ dispatchTab["ContextPeekMessage"] # NULL
    /\ LET r == PeekCall(msgq) IN
       /\ msgq' = r.q
       /\ lastCall' = Call("nContextPeekMessage", FALSE, TRUE, con, r.id, PeekAux(r))
    /\ UNCHANGED <<jniVars, libs, tableVars, failedLoads, handoffVars, raceVars>>

\* (a faulty variant that hands the backend the array length as the byte count)
GetBufferBytes_Ints(len) == len

\* The size in bytes of the buffer nContextGetUserMessage hands to the backend
\* for a data array of len ints (line 315: ptr, len * 4).
GetBufferBytes(len) == len * 4

\* nContextGetUserMessage with a data array of len ints: the buffer handed to the
\* backend is len * 4 bytes (line 315); receiveLen and subID stay in locals and
\* the value returned is the id alone (line 323).  The call record keeps the
\* length of the array the caller passed in aux[1].
nContextGetUserMessage(con, len) ==
    /\ dispatchTab["ContextGetMessage"] # NULL
    /\ LET r == ContextGetMessage(msgq, GetBufferBytes(len)) IN
       /\ msgq' = r.q
       /\ lastCall' = Call("nContextGetUserMessage", FALSE, TRUE, con, r.id, <<len, 0>>)
    /\ UNCHANGED <<jniVars, libs, tableVars, failedLoads, handoffVars, raceVars>>

\* sizeof(buf) of nContextGetErrorMessage (line 291).
ErrorBufBytes == 1024

\* What the stack buffer of nContextGetErrorMessage may hold where nothing was
\* written to it: a NUL at once, or other bytes.
StackText == {0, 1}

\* nContextGetErrorMessage (lines 287-304): the backend is asked for the head
\* message with a buffer of ErrorBufBytes bytes on the stack, the id it returns
\* is dropped and the method returns NewStringUTF(buf).  When the backend
\* delivered nothing the buffer was never written.  aux holds the byte length
\* of the message that was delivered (0 when none was) and what the string was
\* made of.  A message that holds a NUL gives the string up to it (2); one
\* that holds none runs on into what the stack held behind it (3); a message of
\* no bytes leaves the buffer as unwritten as no message does (StackText).
nContextGetErrorMessage(con) ==
    /\ dispatchTab["ContextGetMessage"] # NULL
    /\ LET r == ContextGetMessage(msgq, ErrorBufBytes) IN
       /\ msgq' = r.q
       /\ \E text \in IF r.id # 0 /\ r.receiveLen > 0 THEN {2, 3} ELSE StackText :
             lastCall' = Call("nContextGetErrorMessage", FALSE, TRUE, con, 0,
                              <<IF r.id # 0 THEN r.receiveLen ELSE 0, text>>)
    /\ UNCHANGED <<jniVars, libs, tableVars, failedLoads, handoffVars, raceVars>>

----------------------------------------------------------------------------
(* SpecHandoff: activation, contexts, script operations, the backends' threads *)

\* The context the caller passes as `con` to a script operation: the context of
\* the backend that owns the script.
ScriptCon(mUseInc) == IF mUseInc THEN "incCon" ELSE "con"

\* What the caller must hold to call a ForEach variant.
ForEachReady(mUseInc) == CallerHolds("con") /\ (mUseInc => CallerHolds("incCon"))

InitHandoffSpec ==
    /\ libs = [l \in Libs |-> IF l \in CoreLibs THEN Complete(l) ELSE Absent]
    /\ InitTables
    /\ InitHandoff
    /\ InitRace
    /\ InitJni
    /\ msgq = <<>>

\* Callers that serialize the operations on a Context: a thread-protected
\* method is called only when no thread is inside one.
NextHandoff ==
    \/ \E useNative \in BOOLEAN : nLoadSO(useNative)
    \/ nIncLoadSO
    \/ \E made \in BOOLEAN : Idle /\ nContextCreate(made)
    \/ \E made \in BOOLEAN : Idle /\ nIncContextCreate(made)
    \/ Idle /\ CallerHolds("con") /\ nContextDestroy("con")
    \/ Idle /\ CallerHolds("incCon") /\ nIncContextDestroy("incCon")
    \/ Idle /\ CallerHolds("con") /\ nContextFinish("con")
    \/ Idle /\ CallerHolds("incCon") /\ nIncContextFinish("incCon")
    \/ \E ctx \in Contexts : BackendComplete(ctx)
    \/ CallerHolds("con") /\ nContextPeekMessage("con")
    \/ \E t \in Threads : BackendCall(t)
    \/ \E t \in Threads : FinishReturns(t)
    \/ \E t \in Threads : Return(t)
    \/ \E u \in BOOLEAN :
          Idle /\ CallerHolds(ScriptCon(u)) /\ nScriptBindAllocation(ScriptCon(u), u)
    \/ \E u \in BOOLEAN : Idle /\ CallerHolds(ScriptCon(u)) /\ nScriptSetVarI(ScriptCon(u), u)
    \/ \E u \in BOOLEAN : Idle /\ CallerHolds(ScriptCon(u)) /\ nScriptSetVarObj(ScriptCon(u), u)
    \/ \E u \in BOOLEAN : Idle /\ CallerHolds(ScriptCon(u)) /\ nScriptSetVarJ(ScriptCon(u), u)
    \/ \E u \in BOOLEAN : Idle /\ CallerHolds(ScriptCon(u)) /\ nScriptSetVarF(ScriptCon(u), u)
    \/ \E u \in BOOLEAN : Idle /\ CallerHolds(ScriptCon(u)) /\ nScriptSetVarD(ScriptCon(u), u)
    \/ \E u \in BOOLEAN : Idle /\ CallerHolds(ScriptCon(u)) /\ nScriptSetVarV(ScriptCon(u), u)
    \/ \E u \in BOOLEAN : Idle /\ CallerHolds(ScriptCon(u)) /\ nScriptSetVarVE(ScriptCon(u), u)
    \/ \E u \in BOOLEAN : Idle /\ CallerHolds(ScriptCon(u)) /\ nScriptSetTimeZone(ScriptCon(u), u)
    \/ \E u \in BOOLEAN : Idle /\ CallerHolds(ScriptCon(u)) /\ nScriptInvoke(ScriptCon(u), u)
    \/ \E u \in BOOLEAN : Idle /\ CallerHolds(ScriptCon(u)) /\ nScriptInvokeV(ScriptCon(u), u)
    \/ \E u \in BOOLEAN : Idle /\ ForEachReady(u) /\ nScriptForEach("con", "incCon", u)
    \/ \E u \in BOOLEAN : Idle /\ ForEachReady(u) /\ nScriptForEachV("con", "incCon", u)
    \/ \E u \in BOOLEAN : Idle /\ ForEachReady(u) /\ nScriptForEachClipped("con", "incCon", u)
    \/ \E u \in BOOLEAN : Idle /\ ForEachReady(u) /\ nScriptForEachClippedV("con", "incCon", u)

SpecHandoff == InitHandoffSpec /\ [][NextHandoff]_vars

\* The script operations that take mUseInc and make one backend call, with the
\* three that create an object, on a device where both backends are active.
NextScript ==
    \/ nLoadSO(TRUE)
    \/ nIncLoadSO
    \/ \E made \in BOOLEAN : Idle /\ nContextCreate(made)
    \/ \E made \in BOOLEAN : Idle /\ nIncContextCreate(made)
    \/ \E ctx \in Contexts : BackendComplete(ctx)
    \/ \E t \in Threads : BackendCall(t)
    \/ \E t \in Threads : Return(t)
    \/ \E u \in BOOLEAN :
          Idle /\ CallerHolds(ScriptCon(u)) /\ nScriptBindAllocation(ScriptCon(u), u)
    \/ \E u \in BOOLEAN : Idle /\ CallerHolds(ScriptCon(u)) /\ nScriptSetVarI(ScriptCon(u), u)
    \/ \E u \in BOOLEAN : Idle /\ CallerHolds(ScriptCon(u)) /\ nScriptSetVarObj(ScriptCon(u), u)
    \/ \E u \in BOOLEAN : Idle /\ CallerHolds(ScriptCon(u)) /\ nScriptSetVarJ(ScriptCon(u), u)
    \/ \E u \in BOOLEAN : Idle /\ CallerHolds(ScriptCon(u)) /\ nScriptSetVarF(ScriptCon(u), u)
    \/ \E u \in BOOLEAN : Idle /\ CallerHolds(ScriptCon(u)) /\ nScriptSetVarD(ScriptCon(u), u)
    \/ \E u \in BOOLEAN : Idle /\ CallerHolds(ScriptCon(u)) /\ nScriptSetVarV(ScriptCon(u), u)
    \/ \E u \in BOOLEAN : Idle /\ CallerHolds(ScriptCon(u)) /\ nScriptSetVarVE(ScriptCon(u), u)
    \/ \E u \in BOOLEAN : Idle /\ CallerHolds(ScriptCon(u)) /\ nScriptSetTimeZone(ScriptCon(u), u)
    \/ \E u \in BOOLEAN : Idle /\ CallerHolds(ScriptCon(u)) /\ nScriptInvoke(ScriptCon(u), u)
    \/ \E u \in BOOLEAN : Idle /\ CallerHolds(ScriptCon(u)) /\ nScriptInvokeV(ScriptCon(u), u)
    \/ \E u, made \in BOOLEAN :
          Idle /\ CallerHolds(ScriptCon(u)) /\ nScriptIntrinsicCreate(ScriptCon(u), u, made)
    \/ \E u, made \in BOOLEAN :
          Idle /\ CallerHolds(ScriptCon(u)) /\ nScriptKernelIDCreate(ScriptCon(u), u, made)
    \/ \E u, made \in BOOLEAN :
          Idle /\ CallerHolds(ScriptCon(u)) /\ nScriptFieldIDCreate(ScriptCon(u), u, made)

SpecScript == InitHandoffSpec /\ [][NextScript]_vars

\* Callers that do not serialize: a thread calls a native method while another
\* thread is inside one, and enters it.
NextOverlap ==
    \/ nLoadSO(TRUE)
    \/ nIncLoadSO
    \/ nContextCreate(TRUE)
    \/ nIncContextCreate(TRUE)
    \/ CallerHolds("con") /\ nContextDestroy("con")
    \/ CallerHolds("con") /\ nContextFinish("con")
    \/ \E ctx \in Contexts : BackendComplete(ctx)
    \/ \E t \in Threads : BackendCall(t)
    \/ \E t \in Threads : FinishReturns(t)
    \/ \E t \in Threads : Return(t)
    \/ CallerHolds("con") /\ nScriptSetVarI("con", FALSE)
    \/ CallerHolds("con") /\ nScriptInvoke("con", FALSE)
    \/ ForEachReady(TRUE) /\ nScriptForEach("con", "incCon", TRUE)

SpecOverlap == InitHandoffSpec /\ [][NextOverlap]_vars

----------------------------------------------------------------------------
(* Claims about the handoff and about which table a script operation uses *)

ForEachOps == {"nScriptForEach", "nScriptForEachV", "nScriptForEachClipped",
               "nScriptForEachClippedV"}

InvokeOps == {"nScriptInvoke", "nScriptInvokeV"}

\* The native methods that take the flag mUseInc.
FlagOps == ForEachOps \cup InvokeOps \cup
           {"nScriptBindAllocation", "nScriptSetVarI", "nScriptSetVarObj",
            "nScriptSetVarJ", "nScriptSetVarF", "nScriptSetVarD", "nScriptSetVarV",
            "nScriptSetVarVE", "nScriptSetTimeZone", "nScriptIntrinsicCreate",
            "nScriptKernelIDCreate", "nScriptFieldIDCreate"}

\* The positions in the log of the last native call where script code was
\* started through the incremental table.
IncKernelCalls ==
    {j \in 1..Len(log) : log[j].call.tab = "dispatchTabInc" /\ log[j].call.fn \in KernelFns}

ProducerDrain == [tab |-> "dispatchTab", fn |-> "ContextFinish", ctx |-> "con"]
ConsumerDrain == [tab |-> "dispatchTabInc", fn |-> "ContextFinish", ctx |-> "incCon"]

\* C1: in each ForEach entry point called with mUseInc, the kernel is started
\* through the incremental table on incCon only after ContextFinish was issued
\* through the primary table on con, and at the moment the kernel is started no
\* work is pending on con.
C1_ProducerDrainedBeforeKernel ==
    (lastCall.op \in ForEachOps /\ lastCall.flag) =>
        /\ IncKernelCalls # {}
        /\ \A j \in IncKernelCalls :
              /\ log[j].call.ctx = "incCon"
              /\ \E i \in 1..(j - 1) : log[i].call = ProducerDrain
              /\ log[j].pend["con"] = 0

\* C1 witness: a ForEach with mUseInc was entered while the producer still had
\* work pending on con, and has started its kernel on the incremental backend.
C1_Witness ==
    /\ lastCall.op = "nScriptForEachClippedV" /\ lastCall.flag
    /\ log[1].pend["con"] > 0
    /\ log[2].call.fn = "ScriptForEach"

\* C2: in each ForEach entry point called with mUseInc, after the kernel was
\* started through the incremental table on incCon, ContextFinish is issued
\* through the incremental table on incCon, so that no work is pending on
\* incCon when the call returns.
C2_ConsumerDrainedBeforeReturn ==
    (lastCall.op \in ForEachOps /\ lastCall.flag) =>
        /\ \A j \in IncKernelCalls :
              \E k \in (j + 1)..Len(log) : log[k].call = ConsumerDrain
        /\ pending["incCon"] = 0

\* C3: every native call that starts script code through the incremental table
\* while a primary/fallback context exists (a ForEach variant, nScriptInvoke,
\* nScriptInvokeV with mUseInc) drains the producer context before it and the
\* consumer context after it, within the same call.
C3_BarrierPairAroundEveryIncInvocation ==
    (lastCall.op \in (ForEachOps \cup InvokeOps) /\ lastCall.flag /\ ctxLib["con"] # NULL) =>
        \A j \in IncKernelCalls :
            /\ \E i \in 1..(j - 1) : log[i].call = ProducerDrain
            /\ \E k \in (j + 1)..Len(log) :
                  log[k].call = [tab |-> "dispatchTabInc", fn |-> "ContextFinish",
                                 ctx |-> log[j].call.ctx]

\* C9: a context handle is only passed to the table that minted it, and every
\* script operation that takes mUseInc dispatches through the incremental table
\* exactly when mUseInc is true (the producer drain of the ForEach handoff, which
\* goes through the primary table on con, being the one exception).
C9_HandlesStayWithTheirTable ==
    lastCall.op \in FlagOps =>
        \A j \in 1..Len(log) :
            /\ OwnerTable(log[j].call.ctx) = log[j].call.tab
            /\ log[j].call # ProducerDrain
                  => (log[j].call.tab = "dispatchTabInc") = lastCall.flag

----------------------------------------------------------------------------
(* SpecMsg *)

NextMsg ==
    \/ \E useNative \in BOOLEAN : nLoadSO(useNative)
    \/ \E made \in BOOLEAN : nContextCreate(made)
    \/ \E m \in Messages : BackendPost(m)
    \/ CallerHolds("con") /\ nContextPeekMessage("con")
    \/ \E len \in 0..MaxPayload : CallerHolds("con") /\ nContextGetUserMessage("con", len)
    \/ CallerHolds("con") /\ nContextGetErrorMessage("con")

SpecMsg == InitHandoffSpec /\ [][NextMsg]_vars

----------------------------------------------------------------------------
(* Claims about the message queue *)

\* C10: PeekMessage never consumes.  It leaves the queue as it is; it reports
\* the id, sub-id and byte length of the head message, and id 0 exactly when
\* the queue is empty; and a second PeekMessage that follows a first with no
\* GetMessage and no backend enqueue in between reports the same three values.
C10_PeekDoesNotConsume ==
    /\ [](lastCall.op = "nContextPeekMessage" =>
            /\ (lastCall.ret = 0) = (msgq = <<>>)
            /\ msgq # <<>> =>
                  /\ lastCall.ret = Head(msgq).id
                  /\ lastCall.aux = <<Head(msgq).subId, 4 * Head(msgq).len>>)
    /\ [][lastCall'.op = "nContextPeekMessage" =>
            /\ msgq' = msgq
            /\ lastCall.op = "nContextPeekMessage" => lastCall' = lastCall]_vars

\* C10 witness: PeekMessage has just reported the head of a queue that holds two
\* messages, which are both still queued.
C10_Witness ==
    /\ lastCall.op = "nContextPeekMessage"
    /\ Len(msgq) = 2
    /\ lastCall.ret = Head(msgq).id /\ lastCall.aux[2] > 0
    /\ msgq[2].id # msgq[1].id

\* The values GetMessage returns when it delivers a message (0 is the value it
\* returns when nothing is queued).
DeliveredIds == {m.id : m \in Messages}

\* C11: a GetMessage whose buffer (4 bytes per int of the caller's array) is
\* smaller than the head message delivers nothing and leaves the message at the
\* head of the queue, and the value it returns tells the caller so: it is
\* neither the value of an empty queue nor the id of a delivered message.
C11_TooSmallBufferIsTold ==
    [][(/\ lastCall'.op = "nContextGetUserMessage"
        /\ msgq # <<>>
        /\ 4 * lastCall'.aux[1] < 4 * Head(msgq).len)
         => /\ msgq' = msgq
            /\ lastCall'.ret # 0
            /\ lastCall'.ret \notin DeliveredIds]_vars

\* C12: for a pending message of n ints PeekMessage reports its id and the
\* length 4*n; a GetMessage with a buffer of at least n ints returns that id and
\* removes exactly that message, so the PeekMessage that follows reports id 0
\* when it was the only one and otherwise the message queued right after it.
C12_GetDeliversInFifoOrder ==
    /\ [][(lastCall'.op = "nContextPeekMessage" /\ msgq # <<>>)
            => /\ lastCall'.ret = Head(msgq).id
               /\ lastCall'.aux[2] = 4 * Head(msgq).len]_vars
    /\ [][(/\ lastCall'.op = "nContextGetUserMessage"
            /\ msgq # <<>>
            /\ lastCall'.aux[1] >= Head(msgq).len)
            => /\ lastCall'.ret = Head(msgq).id
               /\ msgq' = Tail(msgq)]_vars
    /\ [][(lastCall.op = "nContextGetUserMessage" /\ lastCall'.op = "nContextPeekMessage")
            => IF msgq = <<>> THEN lastCall'.ret = 0
               ELSE /\ lastCall'.ret = Head(msgq).id
                    /\ lastCall'.aux = <<Head(msgq).subId, 4 * Head(msgq).len>>]_vars

\* C12 witness: a GetMessage with a large enough buffer has just returned the id
\* of a message with a payload, and a different message that was queued behind
\* it is now at the head.
C12_Witness ==
    /\ lastCall.op = "nContextGetUserMessage"
    /\ lastCall.ret \in DeliveredIds
    /\ lastCall.aux[1] > 0
    /\ Len(msgq) = 1
    /\ msgq[1].id # lastCall.ret

----------------------------------------------------------------------------
(* The caller-to-backend message: nContextSendMessage (lines 353-367) *)

MaxWord == 2

\* The int[] values a caller passes: every array of at most MaxPayload words.
IntArrays == UNION {[1..n -> 1..MaxWord] : n \in 0..MaxPayload}
DataArgs == {NullArray} \cup {JArray(FALSE, a) : a \in IntArrays}

\* len * sizeof(int), with len the array length when data is non-null and 0
\* otherwise (lines 357-359, 363).
SendLen(data) == IF data.null THEN 0 ELSE Len(data.ints) * 4

\* The pointer handed to the backend is the function-scope ptr of line 356,
\* which is NULL and is never assigned: line 360 declares a second ptr inside
\* the if block and the elements of the array go to that one.
SendPtr(data) == [hasData |-> FALSE, data |-> <<>>]

\* ReleaseIntArrayElements(data, ptr, JNI_ABORT) copies nothing back, and is
\* handed the NULL ptr of line 356 (line 365): the elements pinned at line 360
\* are never released.
nContextSendMessage(con, id, data) ==
    /\ dispatchTab["ContextSendMessage"] # NULL
    /\ LET ptr == SendPtr(data) IN
       /\ sent' = Sent(id, ptr.hasData, ptr.data, SendLen(data))
       /\ javaData' = [before |-> data, after |-> data]
       /\ held' = IF data.null THEN {} ELSE {"data"}
       /\ lastCall' = Call("nContextSendMessage", FALSE, TRUE, con, 0, <<0, 0>>)
    /\ UNCHANGED <<coreVars, objs, group, alloc, elemVars>>

NextSend ==
    \/ \E useNative \in BOOLEAN : nLoadSO(useNative)
    \/ \E made \in BOOLEAN : nContextCreate(made)
    \/ \E id \in 0..MaxMsgId, data \in DataArgs :
          CallerHolds("con") /\ nContextSendMessage("con", id, data)

SpecSend == InitHandoffSpec /\ [][NextSend]_vars

\* C13: SendMessage hands the backend the caller's message.  For a non-null
\* array of n ints the payload is the content of the array and the length is
\* 4*n bytes; for a null array the payload is absent and the length is 0; the
\* caller's array is the same after the call as before.
C13_SendPassesThePayload ==
    lastCall.op = "nContextSendMessage" =>
        /\ javaData.after = javaData.before
        /\ IF javaData.before.null
           THEN ~sent.hasData /\ sent.len = 0
           ELSE /\ sent.len = 4 * Len(javaData.before.ints)
                /\ sent.data = javaData.before.ints

----------------------------------------------------------------------------
(* Allocation transfers: nAllocationData1D/2D/3D_*, nAllocationElementData1D,
   nAllocationRead_* (lines 608-925) *)

MaxElems == 2

\* The Java array types of the transfer functions and the size in bytes of the
\* JNI element type each one pins (jbyte, jshort, jint, jlong, jfloat).
HostTypes == {"b", "s", "i", "l", "f"}
JSize == [b |-> 1, s |-> 2, i |-> 4, l |-> 8, f |-> 4]

\* The element values of the model are the ones whose bytes are all the same
\* (0x01, 0x0101, 0x01010101, ...), named by that byte: the little-endian bytes
\* of such an element.
ByteVals == {1, 2}
ToBytes(v, size) == [k \in 1..size |-> v]

\* The memory behind a pinned array: the bytes of its elements, in order.
ArrayToBytes(arr, size) ==
    [j \in 1..(Len(arr) * size) |-> ToBytes(arr[((j - 1) \div size) + 1], size)[((j - 1) % size) + 1]]

\* The elements of an array whose memory is bytes, each as its little-endian
\* bytes: what the caller finds after Release...ArrayElements(data, ptr, 0) has
\* copied the pinned memory back.
BytesToArray(bytes, size) ==
    [k \in 1..(Len(bytes) \div size) |-> SubSeq(bytes, (k - 1) * size + 1, k * size)]

\* An array of element values in that form.
Elements(data, size) == BytesToArray(ArrayToBytes(data, size), size)

\* The Types of the model, each the byte sizes of the components of its
\* Element and its dimensions: two bytes in a row, one cell of two shorts, one
\* cell of eight bytes.
AllocTypes ==
    { [comps |-> <<1>>, dims |-> <<2, 1, 1>>],
      [comps |-> <<2, 2>>, dims |-> <<1, 1, 1>>],
      [comps |-> <<8>>, dims |-> <<1, 1, 1>>] }

RECURSIVE SumSeq(_)
SumSeq(q) == IF q = <<>> THEN 0 ELSE Head(q) + SumSeq(Tail(q))

ElementSize(a) == SumSeq(a.comps)

\* The outcome of a backend transfer: "" when it was done, else the error.
Outcome(why, a) == [why |-> why, a |-> a]

\* The bytes of a after the box of the given extent at the given offset has
\* been filled, cell by cell in x-then-y-then-z order, from src.
RegionWrite(a, off, ext, src) ==
    LET E == ElementSize(a)
        X == a.dims[1]
        Y == a.dims[2]
        Byte(j) ==
            LET c == (j - 1) \div E
                x == (c % X) - off[1]
                y == ((c \div X) % Y) - off[2]
                z == (c \div (X * Y)) - off[3]
            IN IF /\ x >= 0 /\ x < ext[1]
                  /\ y >= 0 /\ y < ext[2]
                  /\ z >= 0 /\ z < ext[3]
               THEN src[(z * ext[2] * ext[1] + y * ext[1] + x) * E + ((j - 1) % E) + 1]
               ELSE a.bytes[j]
    IN [a EXCEPT !.bytes = [j \in 1..Len(a.bytes) |-> Byte(j)]]

\* Allocation1DData / Allocation2DData / Allocation3DData of the backend: the
\* declared size must be the number of cells times the element size, else the
\* call fails with SizeMismatch and transfers nothing.
AllocationData(a, off, ext, ptr, sizeBytes) ==
    IF sizeBytes # ext[1] * ext[2] * ext[3] * ElementSize(a)
    THEN Outcome("SizeMismatch", a)
    ELSE Outcome("", RegionWrite(a, off, ext, ptr))

\* Allocation1DElementData of the backend: a Write of the one element at x
\* that patches its component compIdx and leaves the other components.  As
\* for every Write the declared size must be the element count, here 1, times
\* the element size; the buffer holds the element and the component is taken
\* from its place in it.
Allocation1DElementData(a, x, ptr, sizeBytes, compIdx) ==
    IF sizeBytes # 1 * ElementSize(a)
    THEN Outcome("SizeMismatch", a)
    ELSE LET first == SumSeq(SubSeq(a.comps, 1, compIdx))
             at == x * ElementSize(a) + first
         IN Outcome("", [a EXCEPT !.bytes = [j \in 1..Len(a.bytes) |->
                          IF j > at /\ j <= at + a.comps[compIdx + 1]
                          THEN ptr[j - at + first] ELSE a.bytes[j]]])

\* AllocationRead of the backend: the declared number of bytes, from the start
\* of the Allocation's memory, into the buffer; the rest of the buffer is left.
AllocationRead(a, ptr, size) ==
    [j \in 1..Len(ptr) |-> IF j <= size THEN a.bytes[j] ELSE ptr[j]]

\* nAllocationCreateTyped (lines 463-470): the handle the backend returns is
\* returned as it is, 0 when the backend created nothing.  A new Allocation
\* has the given Type and zeroed memory, and is the one the caller holds from
\* then on.
nAllocationCreateTyped(type, made) ==
    /\ dispatchTab["AllocationCreateTyped"] # NULL
    /\ LET id == NewHandle(objs, made) IN
       /\ alloc' = IF id = 0 THEN alloc
                   ELSE Allocation(TRUE, type.comps, type.dims,
                                   [j \in 1..(SumSeq(type.comps) * type.dims[1] * type.dims[2] * type.dims[3]) |-> 0])
       /\ objs' = IF id = 0 THEN objs ELSE [objs EXCEPT ![id] = "Allocation"]
       /\ lastCall' = Call("nAllocationCreateTyped", FALSE, id # 0, "", id, <<0, 0>>)
    /\ log' = Annotate(pending, <<BCall("dispatchTab", "AllocationCreateTyped", "con")>>)
    /\ UNCHANGED <<tablesAndQueues, held, group, sent, javaData, elemVars>>

\* AllocationResize1D of the backend: the Allocation with dimX cells in x, its
\* memory cut or extended with zero bytes to match.
AllocationResize1D(a, dimX) ==
    LET size == ElementSize(a) * dimX * a.dims[2] * a.dims[3] IN
    [a EXCEPT !.dims = <<dimX, a.dims[2], a.dims[3]>>,
              !.bytes = [j \in 1..size |-> IF j <= Len(a.bytes) THEN a.bytes[j] ELSE 0]]

\* nAllocationResize1D (lines 934-940): dispatchTab.AllocationResize1D(con,
\* alloc, dimX); nothing is returned.  aux holds dimX.
nAllocationResize1D(dimX) ==
    /\ dispatchTab["AllocationResize1D"] # NULL
    /\ alloc.made
    /\ alloc' = AllocationResize1D(alloc, dimX)
    /\ log' = Annotate(pending, <<BCall("dispatchTab", "AllocationResize1D", "con")>>)
    /\ lastCall' = Call("nAllocationResize1D", FALSE, TRUE, "", 0, <<dimX, 0, 0, 0>>)
    /\ UNCHANGED <<tablesAndQueues, objVars, sent, javaData, elemVars>>

\* (a faulty variant that derives the size from the array instead of passing on
\* the size the caller declared)
WriteSize_FromArray(data, size, sizeBytes) == Len(data) * size

\* The size handed to the backend is the caller's sizeBytes as it came
\* (line 617 and the same argument in every Data function).
WriteSize(data, size, sizeBytes) == sizeBytes

\* (a faulty variant that syncs the Allocation after the transfer)
TransferCalls_ThenSync(fn) ==
    <<BCall("dispatchTab", fn, "con"), BCall("dispatchTab", "AllocationSyncAll", "con")>>

\* The backend calls of a transfer function: the one call of its entry
\* (line 617 and the like in every Data, copy-range and Read function).
TransferCalls(fn) == <<BCall("dispatchTab", fn, "con")>>

\* What every nAllocationData function leaves: the Allocation as the backend
\* left it, the array (its elements elems) untouched (JNI_ABORT), and the call
\* with its offset, cell count, declared size and component index.
WriteDone(op, fn, r, elems, xoff, count, sizeBytes, compIdx) ==
    /\ alloc' = r.a
    /\ log' = Annotate(pending, TransferCalls(fn))
    /\ javaData' = [before |-> JArray(FALSE, elems), after |-> JArray(FALSE, elems)]
    /\ lastCall' = Call(op, FALSE, r.why = "", r.why, 0, <<xoff, count, sizeBytes, compIdx>>)
    /\ UNCHANGED <<tablesAndQueues, objVars, sent, elemVars>>

\* The caller keeps the box inside the Allocation and declares no more bytes
\* than the array holds.
InBounds(off, ext, data, size, sizeBytes) ==
    /\ alloc.made
    /\ \A k \in 1..3 : off[k] + ext[k] <= alloc.dims[k]
    /\ sizeBytes <= Len(data) * size

Data1D(op, T, offset, count, data, sizeBytes) ==
    /\ dispatchTab["Allocation1DData"] # NULL
    /\ InBounds(<<offset, 0, 0>>, <<count, 1, 1>>, data, JSize[T], sizeBytes)
    /\ WriteDone(op, "Allocation1DData", AllocationData(alloc, <<offset, 0, 0>>, <<count, 1, 1>>,
                                    ArrayToBytes(data, JSize[T]),
                                    WriteSize(data, JSize[T], sizeBytes)),
                 Elements(data, JSize[T]), offset, count, sizeBytes, 0)

nAllocationData1D_l(offset, count, data, sizeBytes) ==
    Data1D("nAllocationData1D_l", "l", offset, count, data, sizeBytes)
nAllocationData1D_i(offset, count, data, sizeBytes) ==
    Data1D("nAllocationData1D_i", "i", offset, count, data, sizeBytes)
nAllocationData1D_s(offset, count, data, sizeBytes) ==
    Data1D("nAllocationData1D_s", "s", offset, count, data, sizeBytes)
nAllocationData1D_b(offset, count, data, sizeBytes) ==
    Data1D("nAllocationData1D_b", "b", offset, count, data, sizeBytes)
nAllocationData1D_f(offset, count, data, sizeBytes) ==
    Data1D("nAllocationData1D_f", "f", offset, count, data, sizeBytes)

nAllocationElementData1D(offset, compIdx, data, sizeBytes) ==
    /\ dispatchTab["Allocation1DElementData"] # NULL
    /\ InBounds(<<offset, 0, 0>>, <<1, 1, 1>>, data, JSize["b"], sizeBytes)
    /\ compIdx < Len(alloc.comps)
    /\ WriteDone("nAllocationElementData1D", "Allocation1DElementData",
                 Allocation1DElementData(alloc, offset, ArrayToBytes(data, JSize["b"]),
                                         WriteSize(data, JSize["b"], sizeBytes), compIdx),
                 Elements(data, JSize["b"]), offset, 1, sizeBytes, compIdx)

Data2D(op, T, xoff, yoff, w, h, data, sizeBytes) ==
    /\ dispatchTab["Allocation2DData"] # NULL
    /\ InBounds(<<xoff, yoff, 0>>, <<w, h, 1>>, data, JSize[T], sizeBytes)
    /\ WriteDone(op, "Allocation2DData", AllocationData(alloc, <<xoff, yoff, 0>>, <<w, h, 1>>,
                                    ArrayToBytes(data, JSize[T]),
                                    WriteSize(data, JSize[T], sizeBytes)),
                 Elements(data, JSize[T]), xoff, w * h, sizeBytes, 0)

nAllocationData2D_s(xoff, yoff, w, h, data, sizeBytes) ==
    Data2D("nAllocationData2D_s", "s", xoff, yoff, w, h, data, sizeBytes)
nAllocationData2D_b(xoff, yoff, w, h, data, sizeBytes) ==
    Data2D("nAllocationData2D_b", "b", xoff, yoff, w, h, data, sizeBytes)
nAllocationData2D_l(xoff, yoff, w, h, data, sizeBytes) ==
    Data2D("nAllocationData2D_l", "l", xoff, yoff, w, h, data, sizeBytes)
nAllocationData2D_i(xoff, yoff, w, h, data, sizeBytes) ==
    Data2D("nAllocationData2D_i", "i", xoff, yoff, w, h, data, sizeBytes)
nAllocationData2D_f(xoff, yoff, w, h, data, sizeBytes) ==
    Data2D("nAllocationData2D_f", "f", xoff, yoff, w, h, data, sizeBytes)

Data3D(op, T, xoff, yoff, zoff, w, h, d, data, sizeBytes) ==
    /\ dispatchTab["Allocation3DData"] # NULL
    /\ InBounds(<<xoff, yoff, zoff>>, <<w, h, d>>, data, JSize[T], sizeBytes)
    /\ WriteDone(op, "Allocation3DData", AllocationData(alloc, <<xoff, yoff, zoff>>, <<w, h, d>>,
                                    ArrayToBytes(data, JSize[T]),
                                    WriteSize(data, JSize[T], sizeBytes)),
                 Elements(data, JSize[T]), xoff, w * h * d, sizeBytes, 0)

nAllocationData3D_s(xoff, yoff, zoff, w, h, d, data, sizeBytes) ==
    Data3D("nAllocationData3D_s", "s", xoff, yoff, zoff, w, h, d, data, sizeBytes)
nAllocationData3D_b(xoff, yoff, zoff, w, h, d, data, sizeBytes) ==
    Data3D("nAllocationData3D_b", "b", xoff, yoff, zoff, w, h, d, data, sizeBytes)
nAllocationData3D_l(xoff, yoff, zoff, w, h, d, data, sizeBytes) ==
    Data3D("nAllocationData3D_l", "l", xoff, yoff, zoff, w, h, d, data, sizeBytes)
nAllocationData3D_i(xoff, yoff, zoff, w, h, d, data, sizeBytes) ==
    Data3D("nAllocationData3D_i", "i", xoff, yoff, zoff, w, h, d, data, sizeBytes)
nAllocationData3D_f(xoff, yoff, zoff, w, h, d, data, sizeBytes) ==
    Data3D("nAllocationData3D_f", "f", xoff, yoff, zoff, w, h, d, data, sizeBytes)

\* The factor each nAllocationRead function multiplies the array length by:
\* sizeof(int) in _l and _i (lines 875, 887), sizeof(short), sizeof(char),
\* sizeof(float) in the others (lines 899, 911, 923).
ReadUnit == [l |-> 4, i |-> 4, s |-> 2, b |-> 1, f |-> 4]

\* nAllocationRead_*: the array is pinned, the backend fills length * unit
\* bytes of it and the release (mode 0) copies the memory back to the array.
\* The caller passes an array no larger than the Allocation.  aux holds the
\* array length and the byte size handed to the backend.
Read(op, T, data) ==
    /\ dispatchTab["AllocationRead"] # NULL
    /\ alloc.made
    /\ Len(data) * JSize[T] <= Len(alloc.bytes)
    /\ LET ptr == ArrayToBytes(data, JSize[T])
           got == AllocationRead(alloc, ptr, Len(data) * ReadUnit[T])
       IN javaData' = [before |-> JArray(FALSE, Elements(data, JSize[T])),
                       after |-> JArray(FALSE, BytesToArray(got, JSize[T]))]
    /\ log' = Annotate(pending, TransferCalls("AllocationRead"))
    /\ lastCall' = Call(op, FALSE, TRUE, "", 0, <<0, Len(data), Len(data) * ReadUnit[T], 0>>)
    /\ UNCHANGED <<tablesAndQueues, objVars, sent, alloc, elemVars>>

nAllocationRead_i(data) == Read("nAllocationRead_i", "i", data)
nAllocationRead_s(data) == Read("nAllocationRead_s", "s", data)
nAllocationRead_b(data) == Read("nAllocationRead_b", "b", data)
nAllocationRead_f(data) == Read("nAllocationRead_f", "f", data)

\* The arrays a caller writes from (every element the same value), and the
\* fresh arrays it reads into.
WriteArrays == {[k \in 1..n |-> v] : n \in 0..MaxElems, v \in ByteVals}
ReadArrays == {[k \in 1..n |-> 0] : n \in 0..MaxElems}

\* Write and read back: the 1D writes of whole arrays, a resize, and the reads
\* the methods table registers (lines 1561-1564: int, short, byte and float;
\* nAllocationRead_l of line 868 is not in the table).
NextXfer ==
    \/ nLoadSO(FALSE)
    \/ \E made \in BOOLEAN : nContextCreate(made)
    \/ \E type \in AllocTypes, made \in BOOLEAN :
          CallerHolds("con") /\ nAllocationCreateTyped(type, made)
    \/ \E offset \in 0..1, count \in 0..2, data \in WriteArrays :
          /\ CallerHolds("con")
          /\ \/ nAllocationData1D_l(offset, count, data, Len(data) * JSize["l"])
             \/ nAllocationData1D_i(offset, count, data, Len(data) * JSize["i"])
             \/ nAllocationData1D_s(offset, count, data, Len(data) * JSize["s"])
             \/ nAllocationData1D_b(offset, count, data, Len(data) * JSize["b"])
             \/ nAllocationData1D_f(offset, count, data, Len(data) * JSize["f"])
    \/ \E dimX \in 1..MaxElems : CallerHolds("con") /\ nAllocationResize1D(dimX)
    \/ \E data \in ReadArrays :
          /\ CallerHolds("con")
          /\ \/ nAllocationRead_i(data)
             \/ nAllocationRead_s(data)
             \/ nAllocationRead_b(data)
             \/ nAllocationRead_f(data)

SpecXfer == InitHandoffSpec /\ [][NextXfer]_vars

\* The array of SpecWrite: MaxElems elements, each 0x01, 0x0101, ...
FillArray == [k \in 1..MaxElems |-> 1]

\* The byte array of the ElementData writes: room for an element of two shorts.
ElementBytes == <<1, 2, 3, 4>>

\* Every write function, with every declared size up to the size of the array
\* (the size is declared in elements of the array's type).
NextWrite ==
    \/ nLoadSO(FALSE)
    \/ \E made \in BOOLEAN : nContextCreate(made)
    \/ \E type \in AllocTypes, made \in BOOLEAN :
          CallerHolds("con") /\ nAllocationCreateTyped(type, made)
    \/ \E x \in 0..1, w \in 0..2, data \in {FillArray}, n \in 0..MaxElems :
          /\ CallerHolds("con")
          /\ \/ nAllocationData1D_l(x, w, data, n * JSize["l"])
             \/ nAllocationData1D_i(x, w, data, n * JSize["i"])
             \/ nAllocationData1D_s(x, w, data, n * JSize["s"])
             \/ nAllocationData1D_b(x, w, data, n * JSize["b"])
             \/ nAllocationData1D_f(x, w, data, n * JSize["f"])
             \/ nAllocationData2D_s(x, 0, w, 1, data, n * JSize["s"])
             \/ nAllocationData2D_b(x, 0, w, 1, data, n * JSize["b"])
             \/ nAllocationData2D_l(x, 0, w, 1, data, n * JSize["l"])
             \/ nAllocationData2D_i(x, 0, w, 1, data, n * JSize["i"])
             \/ nAllocationData2D_f(x, 0, w, 1, data, n * JSize["f"])
             \/ nAllocationData3D_s(x, 0, 0, w, 1, 1, data, n * JSize["s"])
             \/ nAllocationData3D_b(x, 0, 0, w, 1, 1, data, n * JSize["b"])
             \/ nAllocationData3D_l(x, 0, 0, w, 1, 1, data, n * JSize["l"])
             \/ nAllocationData3D_i(x, 0, 0, w, 1, 1, data, n * JSize["i"])
             \/ nAllocationData3D_f(x, 0, 0, w, 1, 1, data, n * JSize["f"])
    \/ \E x \in 0..1, compIdx \in 0..1, data \in {ElementBytes}, n \in 0..Len(ElementBytes) :
          CallerHolds("con") /\ nAllocationElementData1D(x, compIdx, data, n)

SpecWrite == InitHandoffSpec /\ [][NextWrite]_vars

----------------------------------------------------------------------------
(* Claims about transfers *)

Write1DOp == [l |-> "nAllocationData1D_l", i |-> "nAllocationData1D_i",
              s |-> "nAllocationData1D_s", b |-> "nAllocationData1D_b",
              f |-> "nAllocationData1D_f"]

\* The types whose Read is in the methods table, and the name of each.
ReadTypes == {"i", "s", "b", "f"}
ReadOp == [i |-> "nAllocationRead_i", s |-> "nAllocationRead_s",
           b |-> "nAllocationRead_b", f |-> "nAllocationRead_f"]

\* What the Read function of type T (nAllocationRead_l included, lines
\* 868-878) leaves in a fresh array of n elements: the array is pinned, the
\* backend fills n * ReadUnit[T] bytes of it, the release copies them back.
ReadBack(T, n) ==
    BytesToArray(AllocationRead(alloc, ArrayToBytes([k \in 1..n |-> 0], JSize[T]),
                                n * ReadUnit[T]),
                 JSize[T])

\* C14: for every host array type (byte, short, int, long, float), once a
\* Write has written a buffer, whole, to the start of the Allocation, a Read
\* of the same range with the Read function of that type returns the written
\* buffer, unchanged in every element.
C14_WriteThenReadRoundTrips ==
    \A T \in HostTypes :
        (lastCall.op = Write1DOp[T] /\ lastCall.ok /\ lastCall.aux[1] = 0)
            => ReadBack(T, Len(javaData.before.ints)) = javaData.before.ints

WriteOps ==
    { "nAllocationData1D_l", "nAllocationData1D_i", "nAllocationData1D_s",
      "nAllocationData1D_b", "nAllocationData1D_f", "nAllocationElementData1D",
      "nAllocationData2D_s", "nAllocationData2D_b", "nAllocationData2D_l",
      "nAllocationData2D_i", "nAllocationData2D_f",
      "nAllocationData3D_s", "nAllocationData3D_b", "nAllocationData3D_l",
      "nAllocationData3D_i", "nAllocationData3D_f" }

\* C15: a Write (1D, 2D, 3D or ElementData) that declares a byte size other than
\* its element count times the element size of the Allocation's Type fails with
\* SizeMismatch, transfers nothing and leaves the Allocation as it was.
C15_MismatchedWriteFails ==
    [][(lastCall'.op \in WriteOps /\ lastCall'.aux[3] # lastCall'.aux[2] * ElementSize(alloc))
         => /\ ~lastCall'.ok
            /\ lastCall'.why = "SizeMismatch"
            /\ alloc' = alloc]_vars

\* C15 witness: an ElementData write that declared the two bytes of the one
\* component, not the four of the element, has failed with SizeMismatch on an
\* Allocation whose memory is still all zero.
C15_Witness ==
    /\ lastCall.op = "nAllocationElementData1D"
    /\ lastCall.why = "SizeMismatch"
    /\ lastCall.aux[2] = 1 /\ lastCall.aux[3] = 2
    /\ ElementSize(alloc) = 4
    /\ \A j \in 1..Len(alloc.bytes) : alloc.bytes[j] = 0

----------------------------------------------------------------------------
(* Structured Elements: nElementCreate2, nElementGetSubElements (lines 380-445) *)

MaxFields == 2

\* The sub-fields of the model: the id of a sub-Element, a name as its
\* characters ("x", "yz") and an array size.
FieldKinds == { [id |-> 1, name |-> <<120>>, size |-> 2],
                [id |-> 2, name |-> <<121, 122>>, size |-> 1] }

\* What a read past the end of the pinned array-sizes memory, or of memory
\* that was never written, may yield.
Garbage == {0, 9}

\* One such value for each of the indices from + 1 to to, each of its own.
GarbageAt(from, to) == [(from + 1)..to -> Garbage]

\* GetStringUTFChars and GetStringUTFLength (lines 66-67): the characters
\* followed by NUL, and their number.
UTFChars(name) == Append(name, 0)
UTFLength(name) == Len(name)

\* NewStringUTF (line 437): the characters up to the first NUL.
RECURSIVE NewStringUTF(_)
NewStringUTF(chars) ==
    IF chars = <<>> \/ Head(chars) = 0 THEN <<>>
    ELSE <<Head(chars)>> \o NewStringUTF(Tail(chars))

\* ElementCreate2 of the backend: an Element of fieldCount sub-fields, each
\* name kept as the declared number of its characters.
ElementCreate2(ids, fieldCount, nameArray, sizeArray, arraySizes) ==
    [made |-> TRUE,
     fields |-> [i \in 1..fieldCount |->
                    [id |-> ids[i],
                     name |-> SubSeq(nameArray[i], 1, sizeArray[i]),
                     size |-> arraySizes[i]]]]

\* ElementGetSubElements of the backend: the first dataSize sub-fields, names
\* as NUL-terminated strings.
ElementGetSubElements(e, dataSize) ==
    FieldArrays([i \in 1..dataSize |-> e.fields[i].id],
                [i \in 1..dataSize |-> Append(e.fields[i].name, 0)],
                [i \in 1..dataSize |-> e.fields[i].size])

\* (a faulty variant that copies the id where the array size belongs)
FieldSize_FromIds(jIds, jArraySizes, i, g) == jIds[i]

\* arraySizes[i] = (uint32_t)jArraySizes[i] (line 395), for i below the length
\* of the ids array: past the end of the array-sizes array the read at index
\* i yields g[i].
FieldSize(jIds, jArraySizes, i, g) ==
    IF i <= Len(jArraySizes) THEN jArraySizes[i] ELSE g[i]

\* How many of the first n indices lie past the end of an array of length len.
PastEnd(n, len) == IF n > len THEN n - len ELSE 0

\* nElementCreate2: fieldCount is the length of the ids array alone (line 384);
\* ids and array sizes are copied for every index below it (lines 393-396) and
\* as many names are converted (line 398), whatever the lengths of those two
\* arrays.  Fetching a name past the end of the names array raises
\* ArrayIndexOutOfBoundsException and yields null, and GetStringUTFChars of null
\* ends the process.  aux counts the entries read past the end of the names and
\* of the array-sizes array.
nElementCreate2(_ids, _names, _arraySizes) ==
    /\ dispatchTab["ElementCreate2"] # NULL
    /\ \E g \in GarbageAt(Len(_arraySizes), Len(_ids)) :
         LET fieldCount == Len(_ids)
             over == <<PastEnd(fieldCount, Len(_names)), PastEnd(fieldCount, Len(_arraySizes))>>
             arraySizes == [i \in 1..fieldCount |-> FieldSize(_ids, _arraySizes, i, g)]
         IN IF over[1] > 0
            THEN /\ element' = element
                 /\ lastCall' = Call("nElementCreate2", FALSE, FALSE, "abort", 0, over)
            ELSE /\ element' = ElementCreate2(_ids, fieldCount,
                                              [i \in 1..fieldCount |-> UTFChars(_names[i])],
                                              [i \in 1..fieldCount |-> UTFLength(_names[i])],
                                              arraySizes)
                 /\ lastCall' = Call("nElementCreate2", FALSE, TRUE, "", 1, over)
    /\ elemIo' = [before |-> FieldArrays(_ids, _names, _arraySizes),
                  after |-> FieldArrays(_ids, _names, _arraySizes)]
    /\ UNCHANGED <<coreVars, objVars, sent, javaData, alloc>>

\* What the caller's three arrays hold before ElementGetSubElements: dataSize
\* entries each, an id 5, a name "w" and an array size 5.
CallerArrays(dataSize) ==
    FieldArrays([i \in 1..dataSize |-> 5], [i \in 1..dataSize |-> <<119>>],
                [i \in 1..dataSize |-> 5])

\* nElementGetSubElements with three arrays of dataSize entries each: three
\* buffers of dataSize entries are taken from malloc (lines 427-429), the
\* backend fills the entries of the sub-fields there are, and the loop stores
\* every one of the dataSize entries into the caller's arrays (lines 434-440).
\* An entry the backend did not fill holds what malloc left there, in each of
\* the three buffers a value of its own (gi, gn, gs); NewStringUTF of a null
\* name gives null, of any other unset pointer it reads whatever memory the
\* value points at: the process ends (crash), or it yields a string of the
\* bytes it found there.
nElementGetSubElements(dataSize) ==
    /\ dispatchTab["ElementGetSubElements"] # NULL
    /\ element.made
    /\ LET n == IF dataSize <= Len(element.fields) THEN dataSize ELSE Len(element.fields)
           got == ElementGetSubElements(element, n)
       IN
       \E gn \in GarbageAt(n, dataSize) :
       \E crash \in {FALSE} \cup {\E i \in (n + 1)..dataSize : gn[i] # 0} :
          IF crash
          THEN /\ elemIo' = [before |-> CallerArrays(dataSize), after |-> CallerArrays(dataSize)]
               /\ lastCall' = Call("nElementGetSubElements", FALSE, FALSE, "abort", 0,
                                   <<dataSize - n, 0>>)
          ELSE \E gi \in GarbageAt(n, dataSize), gs \in GarbageAt(n, dataSize) :
               LET ids == [i \in 1..dataSize |-> IF i <= n THEN got.ids[i] ELSE gi[i]]
                   names == [i \in 1..dataSize |->
                               IF i <= n THEN NewStringUTF(got.names[i])
                               ELSE IF gn[i] = 0 THEN <<>> ELSE <<gn[i]>>]
                   arraySizes == [i \in 1..dataSize |->
                                    IF i <= n THEN got.arraySizes[i] ELSE gs[i]]
               IN /\ elemIo' = [before |-> CallerArrays(dataSize),
                                after |-> FieldArrays(ids, names, arraySizes)]
                  /\ lastCall' = Call("nElementGetSubElements", FALSE, TRUE, "", 0,
                                      <<dataSize - n, 0>>)
    /\ UNCHANGED <<coreVars, objVars, sent, javaData, alloc, element>>

\* The arrays a caller passes: the ids, names and array sizes of a list of
\* sub-fields, each array cut to a length of its own, the longest of the three
\* holding the whole list.
FieldLists == UNION {[1..n -> FieldKinds] : n \in 0..MaxFields}
Cut(q, n) == SubSeq(q, 1, n)

\* The process is still running.
Alive == lastCall.why # "abort"

NextElem ==
    \/ Alive /\ nLoadSO(FALSE)
    \/ \E made \in BOOLEAN : Alive /\ nContextCreate(made)
    \/ \E fl \in FieldLists :
         \E a \in 0..Len(fl), b \in 0..Len(fl), c \in 0..Len(fl) :
            /\ Len(fl) \in {a, b, c}
            /\ Alive /\ CallerHolds("con")
            /\ nElementCreate2(Cut([i \in 1..Len(fl) |-> fl[i].id], a),
                               Cut([i \in 1..Len(fl) |-> fl[i].name], b),
                               Cut([i \in 1..Len(fl) |-> fl[i].size], c))
    \/ \E dataSize \in 0..MaxFields :
          Alive /\ CallerHolds("con") /\ nElementGetSubElements(dataSize)

SpecElem == InitHandoffSpec /\ [][NextElem]_vars

SameLengths(f) == Len(f.ids) = Len(f.names) /\ Len(f.names) = Len(f.arraySizes)

\* C16: ElementCreate2 with ids, names and array-sizes arrays that are not all
\* of one length fails with SizeMismatch, creates no Element and reads no entry
\* past the end of the shorter arrays.
C16_UnequalArraysAreRejected ==
    [][(lastCall'.op = "nElementCreate2" /\ ~SameLengths(elemIo'.before))
         => /\ ~lastCall'.ok
            /\ lastCall'.why = "SizeMismatch"
            /\ element' = element
            /\ lastCall'.aux = <<0, 0>>]_vars

\* C17: for k sub-fields given as arrays of equal length, ElementCreate2
\* followed by ElementGetSubElements on the result with capacity k returns the
\* same k ids, names and array sizes in the same order.
C17_SubElementsRoundTrip ==
    [][(/\ lastCall.op = "nElementCreate2" /\ lastCall.ok
        /\ SameLengths(elemIo.before)
        /\ lastCall'.op = "nElementGetSubElements"
        /\ Len(elemIo'.before.ids) = Len(elemIo.before.ids))
         => elemIo'.after = elemIo.before]_vars

\* C17 witness: ElementGetSubElements has just returned two sub-fields with
\* different ids, names and array sizes, the second one first.
C17_Witness ==
    /\ lastCall.op = "nElementGetSubElements"
    /\ Len(elemIo.after.ids) = 2
    /\ elemIo.after.ids = <<2, 1>>
    /\ elemIo.after.names = <<<<121, 122>>, <<120>>>>
    /\ elemIo.after.arraySizes = <<1, 2>>

----------------------------------------------------------------------------
(* Creating and destroying backend objects (lines 225-230, 512-569, 1199-1246, 1478-1493) *)

\* (a faulty variant that does not compare the length with the array's)
ScriptArgsValid_NoUpperCheck(scriptRef, length) == ~scriptRef.null /\ length >= 0

\* The three checks of nScriptCCreate that end in `goto exit` (lines 1211-1227).
ScriptArgsValid(scriptRef, length) ==
    /\ ~scriptRef.null
    /\ length >= 0
    /\ ~(Len(scriptRef.ints) < length)

\* nScriptCCreate: the two strings are taken by the constructors of resNameUTF
\* and cacheDirUTF (lines 1205-1206, 38-41) and given back by their destructors
\* (lines 42-44); the script array is pinned only past the checks (line 1228)
\* and released at exit when script_ptr is set (lines 1240-1243).
nScriptCCreate(scriptRef, length, made) ==
    /\ dispatchTab["ScriptCCreate"] # NULL
    /\ LET strings == {"resName", "cacheDir"}
           script_ptr == ScriptArgsValid(scriptRef, length)
           acquired == strings \cup (IF script_ptr THEN {"scriptRef"} ELSE {})
           atExit == acquired \ (IF script_ptr THEN {"scriptRef"} ELSE {})
           calls == IF script_ptr THEN <<BCall("dispatchTab", "ScriptCCreate", "con")>>
                    ELSE <<>>
       IN Created("nScriptCCreate", FALSE, NewHandle(objs, script_ptr /\ made), "Script",
                  calls, atExit \ strings, <<length, 0>>)
    /\ javaData' = [before |-> scriptRef, after |-> scriptRef]

\* (a faulty variant that unlocks the bitmap before the backend has used it)
BitmapSteps_UnlockFirst(pixels, fn) == IF pixels THEN <<"lock", "unlock", fn>> ELSE <<>>

\* The steps of a bitmap operation (lines 517-528 and the same in the other
\* four): AndroidBitmap_lockPixels either locks the bitmap and yields its
\* pixels or yields NULL and locks nothing; the backend call and the unlock sit
\* in the same `if (pixels != NULL)`.
BitmapSteps(pixels, fn) == IF pixels THEN <<"lock", fn, "unlock">> ELSE <<>>

\* The backend calls among the steps, and what is locked after the last step.
StepCalls(steps) ==
    LET fns == SelectSeq(steps, LAMBDA e : e \notin {"lock", "unlock"})
    IN [i \in 1..Len(fns) |-> BCall("dispatchTab", fns[i], "con")]

StillLocked(steps) ==
    IF \E i \in 1..Len(steps) :
          steps[i] = "lock" /\ \A j \in (i + 1)..Len(steps) : steps[j] # "unlock"
    THEN {"pixels"} ELSE {}

\* aux holds the steps of the call and what the new Allocation keeps of the
\* bitmap: "pixels" when the backend was given the pixel address as the
\* Allocation's memory (line 545), "copy" when it was given the pixels to copy.
BitmapCreate(op, fn, pixels, made, keeps) ==
    /\ dispatchTab[fn] # NULL
    /\ LET steps == BitmapSteps(pixels, fn)
       IN Created(op, pixels, NewHandle(objs, pixels /\ made), "Allocation",
                  StepCalls(steps), StillLocked(steps), <<steps, keeps>>)
    /\ UNCHANGED javaData

nAllocationCreateFromBitmap(pixels, made) ==
    BitmapCreate("nAllocationCreateFromBitmap", "AllocationCreateFromBitmap", pixels, made,
                 "copy")

nAllocationCreateBitmapBackedAllocation(pixels, made) ==
    BitmapCreate("nAllocationCreateBitmapBackedAllocation", "AllocationCreateTyped",
                 pixels, made, "pixels")

nAllocationCubeCreateFromBitmap(pixels, made) ==
    BitmapCreate("nAllocationCubeCreateFromBitmap", "AllocationCubeCreateFromBitmap",
                 pixels, made, "copy")

\* AllocationGetPointer of the backend: the address of the memory of the
\* Allocation with handle h.
AllocationGetPointer(h) == 16 * h

\* The usage bits nIncAllocationCreateTyped asks for: 0x0081.
IncUsage == 129

\* (a faulty variant that creates the Allocation over no memory)
IncCreateArgs_NoPointer(pIn) == <<0, IncUsage, 1>>

\* The pointer, the usage bits and the mipmap control handed to
\* dispatchTabInc.AllocationCreateTyped (lines 1487-1489).
IncCreateArgs(pIn) == <<pIn, IncUsage, 1>>

\* nIncAllocationCreateTyped: with a source handle other than 0 it asks the
\* native backend for the pointer and the compatibility backend for an
\* Allocation over it (lines 1485-1490); with 0 it calls nothing.  aux holds
\* the source handle and what AllocationCreateTyped was handed.
nIncAllocationCreateTyped(srcAlloc, made) ==
    /\ srcAlloc # 0 => /\ dispatchTab["AllocationGetPointer"] # NULL
                       /\ dispatchTabInc["AllocationCreateTyped"] # NULL
    /\ LET calls == IF srcAlloc # 0
                    THEN <<BCall("dispatchTab", "AllocationGetPointer", "con"),
                           BCall("dispatchTabInc", "AllocationCreateTyped", "incCon")>>
                    ELSE <<>>
       IN Created("nIncAllocationCreateTyped", FALSE, NewHandle(objs, srcAlloc # 0 /\ made),
                  "Allocation", calls, {},
                  <<srcAlloc>> \o (IF srcAlloc # 0
                                   THEN IncCreateArgs(AllocationGetPointer(srcAlloc))
                                   ELSE <<0, 0, 0>>))
    /\ UNCHANGED javaData

\* A handle reaches the backend as the pointer it is cast to (lines 229, 950,
\* 952): when it does not refer to a live object of the kind the callee takes
\* it for, the access is undefined and the memory behind it may be damaged.
Misused(o, h) == {o, [o EXCEPT ![h] = "corrupt"]}

LiveKinds == {"Allocation", "Script", "KernelID", "FieldID"}

\* nObjDestroy: dispatchTab.ObjDestroy(con, (void *)obj), whatever obj is.
nObjDestroy(obj) ==
    /\ dispatchTab["ObjDestroy"] # NULL
    /\ objs' \in IF objs[obj] \in LiveKinds THEN {[objs EXCEPT ![obj] = "destroyed"]}
                 ELSE Misused(objs, obj)
    /\ log' = Annotate(pending, <<BCall("dispatchTab", "ObjDestroy", "con")>>)
    /\ lastCall' = Call("nObjDestroy", FALSE, TRUE, "", 0, <<obj, 0>>)
    /\ held' = {}
    /\ UNCHANGED <<tablesAndQueues, sent, javaData, alloc, elemVars, group>>

\* nIncObjDestroy (lines 1411-1416): dispatchTabInc.ObjDestroy(con, (void *)obj),
\* whatever obj is.
nIncObjDestroy(obj) ==
    /\ dispatchTabInc["ObjDestroy"] # NULL
    /\ objs' \in IF objs[obj] \in LiveKinds THEN {[objs EXCEPT ![obj] = "destroyed"]}
                 ELSE Misused(objs, obj)
    /\ log' = Annotate(pending, <<BCall("dispatchTabInc", "ObjDestroy", "incCon")>>)
    /\ lastCall' = Call("nIncObjDestroy", FALSE, TRUE, "", 0, <<obj, 0>>)
    /\ held' = {}
    /\ UNCHANGED <<tablesAndQueues, sent, javaData, alloc, elemVars, group>>

\* nScriptBindAllocation with its two handle arguments: both are cast and
\* forwarded (lines 949-953), and the method returns nothing.
ScriptBindAllocationOf(script, allocation, mUseInc) ==
    /\ TableNamed(IF mUseInc THEN "dispatchTabInc" ELSE "dispatchTab")["ScriptBindAllocation"] # NULL
    /\ objs' \in IF objs[script] # "Script" THEN Misused(objs, script)
                 ELSE IF objs[allocation] # "Allocation" THEN Misused(objs, allocation)
                 ELSE {objs}
    /\ log' = Annotate(pending, Either("ScriptBindAllocation", ScriptCon(mUseInc), mUseInc))
    /\ lastCall' = Call("nScriptBindAllocation", mUseInc, TRUE, "", 0, <<script, allocation>>)
    /\ held' = {}
    /\ UNCHANGED <<tablesAndQueues, sent, javaData, alloc, elemVars, group>>

\* The script arrays a caller passes: none, or n bytes.
ScriptRefs == {NullArray} \cup {JArray(FALSE, [k \in 1..n |-> 1]) : n \in 0..MaxElems}

NextObj ==
    \/ nLoadSO(FALSE)
    \/ nIncLoadSO
    \/ \E made \in BOOLEAN : nContextCreate(made)
    \/ \E made \in BOOLEAN : nIncContextCreate(made)
    \/ \E scriptRef \in ScriptRefs, length \in -1..MaxElems, made \in BOOLEAN :
          CallerHolds("con") /\ nScriptCCreate(scriptRef, length, made)
    \/ \E pixels \in BOOLEAN, made \in BOOLEAN :
          CallerHolds("con") /\ nAllocationCreateFromBitmap(pixels, made)
    \/ \E pixels \in BOOLEAN, made \in BOOLEAN :
          CallerHolds("con") /\ nAllocationCreateBitmapBackedAllocation(pixels, made)
    \/ \E pixels \in BOOLEAN, made \in BOOLEAN :
          CallerHolds("con") /\ nAllocationCubeCreateFromBitmap(pixels, made)
    \/ \E srcAlloc \in 0..MaxHandles, made \in BOOLEAN :
          /\ CallerHolds("con") /\ CallerHolds("incCon")
          /\ nIncAllocationCreateTyped(srcAlloc, made)
    \/ \E obj \in Handles : CallerHolds("con") /\ nObjDestroy(obj)
    \/ \E obj \in Handles : CallerHolds("incCon") /\ nIncObjDestroy(obj)
    \/ \E script \in Handles, allocation \in Handles, u \in BOOLEAN :
          CallerHolds(ScriptCon(u)) /\ ScriptBindAllocationOf(script, allocation, u)

SpecObj == InitHandoffSpec /\ [][NextObj]_vars

\* C18: passing a handle of one object type where another is expected, or a
\* handle that was already destroyed, fails fast with InvalidHandle and changes
\* no state; no operation acts on a handle whose type does not match.
C18_BadHandleFailsFast ==
    [][(\/ /\ lastCall'.op = "nScriptBindAllocation"
           /\ \/ objs[lastCall'.aux[1]] # "Script"
              \/ objs[lastCall'.aux[2]] # "Allocation"
        \/ /\ lastCall'.op \in {"nObjDestroy", "nIncObjDestroy"}
           /\ objs[lastCall'.aux[1]] \notin LiveKinds)
         => /\ ~lastCall'.ok
            /\ lastCall'.why = "InvalidHandle"
            /\ objs' = objs
            /\ log' = <<>>]_vars

\* C28: nIncAllocationCreateTyped with a non-zero primary allocation handle
\* creates the incremental Allocation on incCon over exactly the address the
\* primary backend reports for that allocation on con, with usage bits 0x0081,
\* and returns the incremental backend's handle; with a zero handle it calls
\* neither backend and returns 0.
C28_IncAllocationSharesMemory ==
    lastCall.op = "nIncAllocationCreateTyped" =>
        IF lastCall.aux[1] # 0
        THEN /\ Len(log) = 2
             /\ log[1].call = BCall("dispatchTab", "AllocationGetPointer", "con")
             /\ log[2].call = BCall("dispatchTabInc", "AllocationCreateTyped", "incCon")
             /\ lastCall.aux[2] = AllocationGetPointer(lastCall.aux[1])
             /\ lastCall.aux[3] = 129
             /\ lastCall.ret # 0 => objs[lastCall.ret] = "Allocation"
             /\ lastCall.ret = 0 <=> ~lastCall.ok
        ELSE log = <<>> /\ lastCall.ret = 0

\* C28 witness: the Allocation with handle 1 was shared with the incremental
\* backend, which returned handle 2 for an Allocation over its memory.
C28_Witness ==
    /\ lastCall.op = "nIncAllocationCreateTyped"
    /\ lastCall.aux[1] = 1
    /\ objs[1] = "Allocation"
    /\ lastCall.aux[2] = 16
    /\ lastCall.ret = 2
    /\ objs[2] = "Allocation"

CreateOps == {"nScriptCCreate", "nAllocationCreateFromBitmap",
              "nAllocationCreateBitmapBackedAllocation",
              "nAllocationCubeCreateFromBitmap", "nIncAllocationCreateTyped"}

\* C19: a create that fails returns the zero handle and leaves nothing
\* acquired: nScriptCCreate returns 0 without a backend call for a null script
\* array, a negative length or a length above the array's; the three bitmap
\* creates and nIncAllocationCreateTyped return 0 without a backend call when
\* the lock yields no pixels or the source handle is 0; whatever the call
\* pinned or locked is released when it returns.
C19_FailedCreateLeavesNothing ==
    lastCall.op \in CreateOps =>
        /\ held = {}
        /\ ~lastCall.ok => lastCall.ret = 0
        /\ (/\ lastCall.op = "nScriptCCreate"
            /\ \/ javaData.before.null
               \/ lastCall.aux[1] < 0
               \/ lastCall.aux[1] > Len(javaData.before.ints))
             => lastCall.ret = 0 /\ log = <<>>
        /\ (/\ lastCall.op \in CreateOps \ {"nScriptCCreate", "nIncAllocationCreateTyped"}
            /\ ~lastCall.flag)
             => lastCall.ret = 0 /\ log = <<>>
        /\ (lastCall.op = "nIncAllocationCreateTyped" /\ lastCall.aux[1] = 0)
             => lastCall.ret = 0 /\ log = <<>>

\* C19 witness: nScriptCCreate was given a one-byte script array and length 2
\* after an earlier create had succeeded, and returned 0 with no backend call.
C19_Witness ==
    /\ lastCall.op = "nScriptCCreate"
    /\ ~javaData.before.null
    /\ Len(javaData.before.ints) = 1
    /\ lastCall.aux[1] = 2
    /\ lastCall.ret = 0
    /\ log = <<>>
    /\ held = {}
    /\ \E h \in Handles : objs[h] = "Allocation"

----------------------------------------------------------------------------
(* Closures and script groups (lines 145-223, 1284-1368) *)

\* methods[] registers rsnScriptGroupCreate, rsnScriptGroupSetInput,
\* rsnScriptGroupSetOutput and rsnScriptGroupExecute (lines 1589, 1591-1593):
\* these are the steps a caller of the library takes (NextGroup).  The entries
\* of rsnClosureCreate and rsnScriptGroup2Create are commented out (lines 1521,
\* 1590) and both functions are static, so no caller reaches them.  They are
\* modelled as the file defines them and run on their arguments in
\* specifications of their own (NextClosure, NextGroup2), which are not
\* behaviours of a caller of the library.

MaxClosures == 2

SeqSet(q) == {q[i] : i \in 1..Len(q)}

\* for (i < depClosures_length) depClosures[i] = (RsClosure)jDepClosures[i]
\* (lines 174-176).
DepClosures(jDepClosures, depClosures_length) ==
    [i \in 1..depClosures_length |-> jDepClosures[i]]

\* for (i < depClosures_length) depFieldIDs[i] = jDepFieldIDs[i] (lines 183-185):
\* depFieldIDs_length entries are handed over, of which the loop has set the
\* first depClosures_length; g[i] is what entry i holds when the loop did not
\* set it.
DepFieldIDs(jDepFieldIDs, depClosures_length, depFieldIDs_length, g) ==
    [i \in 1..depFieldIDs_length |->
        IF i <= depClosures_length /\ i <= Len(jDepFieldIDs) THEN jDepFieldIDs[i] ELSE g[i]]

\* ClosureCreate of the backend: a closure of the kernel with the dependencies
\* it was handed.
ClosureCreate(kernelID, depClosures, depFieldIDs) ==
    [kernel |-> kernelID, deps |-> depClosures, fields |-> depFieldIDs]

\* The dependencies among the closures of a list, as pairs <<producer,
\* consumer>>: deps[h] are the closures that closure h depends on.
DependsOn(deps, list) ==
    UNION {{<<deps[h][k], h>> : k \in 1..Len(deps[h])} : h \in SeqSet(list)}

\* The links of a kernel group: link i runs from kernel src[i] to kernel
\* dstk[i], and is a link to a script field when dstk[i] is 0.
Links(src, dstk) ==
    {<<src[i], dstk[i]>> : i \in {j \in 1..Len(src) : j <= Len(dstk) /\ dstk[j] # 0}}

\* The order in which the backend resolves a group: again and again the first
\* listed member that is not resolved and whose producers are all resolved.
RECURSIVE Schedule(_, _, _)
Schedule(edges, listed, done) ==
    LET ready == {i \in 1..Len(listed) :
                    /\ listed[i] \notin SeqSet(done)
                    /\ \A e \in edges : e[2] = listed[i] => e[1] \in SeqSet(done)}
    IN IF ready = {} THEN done
       ELSE Schedule(edges, listed,
                     Append(done, listed[CHOOSE i \in ready : \A k \in ready : i <= k]))

\* ScriptGroupExecute of the backend: the kernels run in the resolved order, or
\* none runs and the execution fails with InvalidGraph when some member of the
\* group cannot be resolved.
ScriptGroupExecute(edges, listed) ==
    LET order == Schedule(edges, listed, <<>>)
    IN IF Len(order) = Len(listed) THEN [why |-> "", ran |-> order]
       ELSE [why |-> "InvalidGraph", ran |-> <<>>]

\* The arrays nClosureCreate pins with Get<Type>ArrayElements (lines 151, 159,
\* 166, 169-170, 178-179); none is released.
ClosureArrays ==
    {"fieldIDArray", "valueArray", "sizeArray", "depClosureArray", "depFieldIDArray"}

\* nClosureCreate: the arrays are copied and handed to dispatchTab.ClosureCreate,
\* whose result is returned: the new closure's handle, or 0 when the backend made
\* none.  The backend's handle of the k-th closure is k.  aux counts the entries
\* the field-id loop read past the end of the caller's array (and wrote past the
\* end of its own buffer).
nClosureCreate(kernelID, depClosureArray, depFieldIDArray, made) ==
    /\ dispatchTab["ClosureCreate"] # NULL
    /\ Len(group.closures) < MaxClosures
    /\ \E g \in GarbageAt(Len(depClosureArray), Len(depFieldIDArray)) :
         LET depClosures_length == Len(depClosureArray)
             depFieldIDs_length == Len(depFieldIDArray)
             closure == ClosureCreate(kernelID,
                                      DepClosures(depClosureArray, depClosures_length),
                                      DepFieldIDs(depFieldIDArray, depClosures_length,
                                                  depFieldIDs_length, g))
         IN group' = IF made
                     THEN [group EXCEPT !.closures =
                             Append(@, [declared |-> depClosureArray,
                                        declaredFields |-> depFieldIDArray,
                                        made |-> closure])]
                     ELSE group
    /\ held' = ClosureArrays
    /\ log' = Annotate(pending, <<BCall("dispatchTab", "ClosureCreate", "con")>>)
    /\ lastCall' = Call("nClosureCreate", FALSE, made, "",
                        IF made THEN Len(group.closures) + 1 ELSE 0,
                        <<PastEnd(Len(depClosureArray), Len(depFieldIDArray)), 0>>)
    /\ UNCHANGED <<tablesAndQueues, sent, javaData, alloc, elemVars, objs>>

\* What a group create leaves: the group under the handle the backend produced
\* (the earlier group when it produced none), with the dependencies the caller
\* declared and those the backend was handed.
GroupCreated(id, listed, declared, edges) ==
    /\ objs' = IF id = 0 THEN objs ELSE [objs EXCEPT ![id] = "ScriptGroup"]
    /\ group' = IF id = 0 THEN group
                ELSE [group EXCEPT !.id = id, !.listed = listed, !.declared = declared,
                                   !.edges = edges, !.ran = <<>>, !.why = ""]

\* (a faulty variant that hands the closures over last to first)
Closures_Reversed(jClosures, numClosures) ==
    [i \in 1..numClosures |-> jClosures[numClosures + 1 - i]]

\* closures[i] = (RsClosure)jClosures[i] for every index of the array (lines 215-218).
Closures(jClosures, numClosures) == [i \in 1..numClosures |-> jClosures[i]]

\* nScriptGroup2Create: the array is pinned (line 213) and not released, the
\* copied list goes to dispatchTab.ScriptGroup2Create with no check of its own,
\* and the backend's result is returned: the group's handle, or 0.  aux is the
\* caller's array and the list the backend was handed.
nScriptGroup2Create(closureArray, made) ==
    /\ dispatchTab["ScriptGroup2Create"] # NULL
    /\ LET numClosures == Len(closureArray)
           closures == Closures(closureArray, numClosures)
           id == NewHandle(objs, made)
       IN /\ GroupCreated(id, closures,
                          DependsOn([h \in 1..Len(group.closures) |->
                                        group.closures[h].declared], closureArray),
                          DependsOn([h \in 1..Len(group.closures) |->
                                        group.closures[h].made.deps], closures))
          /\ lastCall' = Call("nScriptGroup2Create", FALSE, id # 0, "", id,
                              <<closureArray, closures>>)
    /\ held' = {"closureArray"}
    /\ log' = Annotate(pending, <<BCall("dispatchTab", "ScriptGroup2Create", "con")>>)
    /\ UNCHANGED <<tablesAndQueues, sent, javaData, alloc, elemVars>>

\* for (i < len) ptr[i] = (RsScriptKernelID)jPtr[i], for each of the arrays
\* with its own length (lines 1290-1323).
KernelIDs(jPtr, len) == [i \in 1..len |-> jPtr[i]]

\* (a faulty variant that hands the backend no source of a link)
SrcKernels_None(jSrcPtr, srcLen) == <<>>

\* for (i < srcLen) srcPtr[i] = (RsScriptKernelID)jSrcPtr[i] (lines 1297-1302).
SrcKernels(jSrcPtr, srcLen) == [i \in 1..srcLen |-> jSrcPtr[i]]

\* nScriptGroupCreate: the five arrays are copied into buffers of their own
\* lengths and handed to dispatchTab.ScriptGroupCreate; the buffers are freed,
\* the arrays released (lines 1332-1341) and the backend's result is returned.
\* The members of the group are its kernels, in the order of _kernels, and a
\* link from kernel A to kernel B is B's dependency on an output of A.  aux is
\* the caller's kernel array and the list the backend was handed.
nScriptGroupCreate(_kernels, _src, _dstk, _dstf, _types, made) ==
    /\ dispatchTab["ScriptGroupCreate"] # NULL
    /\ LET kernelsPtr == KernelIDs(_kernels, Len(_kernels))
           srcPtr == SrcKernels(_src, Len(_src))
           dstkPtr == KernelIDs(_dstk, Len(_dstk))
           id == NewHandle(objs, made)
       IN /\ GroupCreated(id, kernelsPtr, Links(_src, _dstk), Links(srcPtr, dstkPtr))
          /\ lastCall' = Call("nScriptGroupCreate", FALSE, id # 0, "", id,
                              <<_kernels, kernelsPtr>>)
    /\ held' = {}
    /\ log' = Annotate(pending, <<BCall("dispatchTab", "ScriptGroupCreate", "con")>>)
    /\ UNCHANGED <<tablesAndQueues, sent, javaData, alloc, elemVars>>

\* nScriptGroupSetInput, nScriptGroupSetOutput (lines 1345-1361): one backend
\* call each, with the group, the kernel and the Allocation as they were given.
GroupBind(op, fn, gid, kid, allocation) ==
    /\ dispatchTab[fn] # NULL
    /\ log' = Annotate(pending, <<BCall("dispatchTab", fn, "con")>>)
    /\ lastCall' = Call(op, FALSE, TRUE, "", 0, <<gid, kid, allocation>>)
    /\ held' = {}
    /\ UNCHANGED <<tablesAndQueues, sent, javaData, alloc, elemVars, objs, group>>

nScriptGroupSetInput(gid, kid, allocation) ==
    GroupBind("nScriptGroupSetInput", "ScriptGroupSetInput", gid, kid, allocation)

nScriptGroupSetOutput(gid, kid, allocation) ==
    GroupBind("nScriptGroupSetOutput", "ScriptGroupSetOutput", gid, kid, allocation)

\* nScriptGroupExecute: dispatchTab.ScriptGroupExecute(con, gid), and nothing
\* is returned: how the execution ended stays with the backend (group.why).
nScriptGroupExecute(gid) ==
    /\ dispatchTab["ScriptGroupExecute"] # NULL
    /\ gid = group.id
    /\ LET r == ScriptGroupExecute(group.edges, group.listed)
       IN group' = [group EXCEPT !.ran = r.ran, !.why = r.why]
    /\ lastCall' = Call("nScriptGroupExecute", FALSE, TRUE, "", 0, <<gid, 0>>)
    /\ log' = Annotate(pending, <<BCall("dispatchTab", "ScriptGroupExecute", "con")>>)
    /\ held' = {}
    /\ UNCHANGED <<tablesAndQueues, sent, javaData, alloc, elemVars, objs>>

\* The sequences without repetition over a set of handles.
RECURSIVE Listings(_)
Listings(S) ==
    {<<>>} \cup UNION {{<<h>> \o q : q \in Listings(S \ {h})} : h \in S}

\* The link arrays a caller passes for a group of kernels 1 and 2: no link, a
\* link from 1 to 2, links both ways, a link from a kernel outside the group,
\* a link to a script field, and a destination array shorter than the sources.
LinkArrays ==
    { [src |-> <<>>, dstk |-> <<>>, dstf |-> <<>>],
      [src |-> <<1>>, dstk |-> <<2>>, dstf |-> <<0>>],
      [src |-> <<1, 2>>, dstk |-> <<2, 1>>, dstf |-> <<0, 0>>],
      [src |-> <<3>>, dstk |-> <<1>>, dstf |-> <<0>>],
      [src |-> <<1>>, dstk |-> <<0>>, dstf |-> <<1>>],
      [src |-> <<1, 2>>, dstk |-> <<2>>, dstf |-> <<0>>] }

\* A caller of the library with the Fallback backend: the registered natives.
NextGroup ==
    \/ nLoadSO(FALSE)
    \/ \E made \in BOOLEAN : nContextCreate(made)
    \/ \E kernels \in {<<1, 2>>, <<2, 1>>}, l \in LinkArrays, made \in BOOLEAN :
          /\ CallerHolds("con")
          /\ nScriptGroupCreate(kernels, l.src, l.dstk, l.dstf, [i \in 1..Len(l.src) |-> 1],
                                made)
    \/ \E kid \in {1, 2}, allocation \in {1, 2} :
          /\ CallerHolds("con") /\ group.id # 0
          /\ \/ nScriptGroupSetInput(group.id, kid, allocation)
             \/ nScriptGroupSetOutput(group.id, kid, allocation)
    \/ CallerHolds("con") /\ group.id # 0 /\ nScriptGroupExecute(group.id)

SpecGroup == InitHandoffSpec /\ [][NextGroup]_vars

\* Where member h ran in the last execution: 0 when it did not run.
RanAt(h) ==
    IF h \in SeqSet(group.ran) THEN CHOOSE i \in 1..Len(group.ran) : group.ran[i] = h ELSE 0

\* A declared dependency of the group is on a member that is not in the group.
Dangling == \E e \in group.declared : e[1] \notin SeqSet(group.listed)

\* The declared dependencies of the group contain a cycle: some members each
\* depend on one of themselves.
Cyclic ==
    \E S \in SUBSET SeqSet(group.listed) :
        S # {} /\ \A b \in S : \E a \in S : <<a, b>> \in group.declared

\* C20 as stated: in any group in which closure B declares a dependency on
\* closure A, Execute runs A strictly before B wherever the caller listed them.
C20_Original ==
    lastCall.op = "nScriptGroupExecute" =>
        \A e \in group.declared :
            e[1] \in SeqSet(group.listed) => RanAt(e[1]) >= 1 /\ RanAt(e[1]) < RanAt(e[2])

\* C20: in a group whose declared dependencies are all on members of the group
\* and contain no cycle, and in which closure B declares a dependency on
\* closure A, Execute runs A strictly before B whatever the order in which the
\* caller listed the closures.
C20_DependenciesRunFirst ==
    (lastCall.op = "nScriptGroupExecute" /\ ~Dangling /\ ~Cyclic) =>
        \A e \in group.declared : RanAt(e[1]) >= 1 /\ RanAt(e[1]) < RanAt(e[2])

\* C20 witness: member 2 depends on member 1, the group lists member 2 before
\* member 1, and the execution ran member 1 and then member 2.
C20_Witness ==
    /\ lastCall.op = "nScriptGroupExecute"
    /\ group.listed = <<2, 1>>
    /\ group.declared = {<<1, 2>>}
    /\ group.ran = <<1, 2>>

\* C21: Execute on a group whose dependency relation contains a cycle, or a
\* dependency on a closure that is not in the group, ends with InvalidGraph in
\* the backend and runs no kernel of the group.
C21_UnresolvableGroupRunsNothing ==
    (lastCall.op = "nScriptGroupExecute" /\ (Cyclic \/ Dangling)) =>
        /\ group.why = "InvalidGraph"
        /\ group.ran = <<>>

\* C21 witness: members 1 and 2 each depend on the other, the group lists
\* both and nothing else is declared, and Execute ended with InvalidGraph
\* having run nothing.
C21_Witness ==
    /\ lastCall.op = "nScriptGroupExecute"
    /\ group.listed = <<1, 2>>
    /\ group.declared = {<<1, 2>>, <<2, 1>>}
    /\ Cyclic /\ ~Dangling
    /\ group.why = "InvalidGraph"
    /\ group.ran = <<>>

\* The dependency field ids a caller passes: up to MaxFields of them.
FieldIdArrays == UNION {[1..n -> {1, 2}] : n \in 0..MaxFields}

\* nClosureCreate run on its arguments, with the table bound and the context
\* made that its backend call needs.
NextClosure ==
    \/ nLoadSO(FALSE)
    \/ \E made \in BOOLEAN : nContextCreate(made)
    \/ \E deps \in Listings(1..Len(group.closures)), fields \in FieldIdArrays,
          made \in BOOLEAN :
          /\ CallerHolds("con")
          /\ nClosureCreate(Len(group.closures) + 1, deps, fields, made)

SpecClosure == InitHandoffSpec /\ [][NextClosure]_vars

\* The dependency arrays nClosureCreate is given: no dependency, one on any
\* handle value (the closure itself or one not created yet among them) with its
\* field id, and a field id without a dependency.
DepArrays ==
    {[closures |-> <<>>, fields |-> <<>>], [closures |-> <<>>, fields |-> <<1>>]}
        \cup {[closures |-> <<h>>, fields |-> <<1>>] : h \in 1..MaxClosures}

\* nClosureCreate and nScriptGroup2Create run on their arguments: closures are
\* made and listed in groups.
NextGroup2 ==
    \/ nLoadSO(FALSE)
    \/ \E made \in BOOLEAN : nContextCreate(made)
    \/ \E dep \in DepArrays, made \in BOOLEAN :
          /\ CallerHolds("con")
          /\ nClosureCreate(Len(group.closures) + 1, dep.closures, dep.fields, made)
    \/ \E closureArray \in Listings(1..Len(group.closures)) \ {<<>>}, made \in BOOLEAN :
          CallerHolds("con") /\ nScriptGroup2Create(closureArray, made)

SpecGroup2 == InitHandoffSpec /\ [][NextGroup2]_vars

\* C24: ClosureCreate passes the caller's dependency lists to the backend
\* exactly: the backend gets as many dependency field ids as the caller's
\* array holds, each equal to the caller's entry, the same for the dependency
\* closures, and no entry past the end of either array is read, also when the
\* two arrays have different lengths.
C24_DependencyListsPassedExactly ==
    /\ \A k \in 1..Len(group.closures) :
          /\ group.closures[k].made.fields = group.closures[k].declaredFields
          /\ group.closures[k].made.deps = group.closures[k].declared
    /\ lastCall.op = "nClosureCreate" => lastCall.aux[1] = 0

\* C25: nScriptGroup2Create hands the backend, in one call and whatever the
\* dependencies among the closures, a list with the length and the order of the
\* caller's list, and returns what the backend produced: the handle of a group
\* of that list, or 0 when the backend made no group.
C25_GroupListPassedAsGiven ==
    lastCall.op = "nScriptGroup2Create" =>
        /\ lastCall.aux[2] = lastCall.aux[1]
        /\ log = Annotate(pending, <<BCall("dispatchTab", "ScriptGroup2Create", "con")>>)
        /\ lastCall.ok <=> lastCall.ret # 0
        /\ lastCall.ret # 0 =>
              /\ objs[lastCall.ret] = "ScriptGroup"
              /\ group.id = lastCall.ret
              /\ group.listed = lastCall.aux[1]

\* C25 witness: closures 1 and 2 each depend on the other; the caller listed
\* 2, then 1, after an earlier group had taken handle 1, and got handle 2 for a
\* group of that list.
C25_Witness ==
    /\ lastCall.op = "nScriptGroup2Create"
    /\ lastCall.aux[1] = <<2, 1>>
    /\ group.closures[1].declared = <<2>>
    /\ group.closures[2].declared = <<1>>
    /\ Cyclic
    /\ group.listed = <<2, 1>>
    /\ lastCall.ret = 2
    /\ objs[2] = "ScriptGroup"

\* C26: for every typed Read (long, int, short, byte, float) the byte size
\* its function passes to the backend's AllocationRead, for an array as long as
\* the one the caller passed last, is the array length times the byte width of
\* the array's element type (8, 4, 2, 1, 4).
C26_ReadSizeIsArraySize ==
    \A T \in HostTypes :
        LET length == Len(javaData.before.ints) IN
        length * ReadUnit[T] = length * JSize[T]

----------------------------------------------------------------------------
(* Sync and copies between Allocations (lines 473-478, 752-774, 845-865) *)

\* The bytes of the box of the given extent at the given offset of a, cell by
\* cell in x-then-y-then-z order.
RegionRead(a, off, ext) ==
    LET E == ElementSize(a)
        X == a.dims[1]
        Y == a.dims[2]
        At(k) ==
            LET c == (k - 1) \div E
                x == (c % ext[1]) + off[1]
                y == ((c \div ext[1]) % ext[2]) + off[2]
                z == (c \div (ext[1] * ext[2])) + off[3]
            IN ((z * Y + y) * X + x) * E + ((k - 1) % E) + 1
    IN [k \in 1..(ext[1] * ext[2] * ext[3] * E) |-> a.bytes[At(k)]]

\* AllocationCopy2DRange / AllocationCopy3DRange of the backend: the source box
\* is copied onto the destination box.
AllocationCopyRange(a, dstOff, ext, srcOff) ==
    RegionWrite(a, dstOff, ext, RegionRead(a, srcOff, ext))

\* What a copy between Allocations leaves; the caller keeps both boxes inside.
CopyDone(op, fn, dstOff, ext, srcOff) ==
    /\ dispatchTab[fn] # NULL
    /\ alloc.made
    /\ \A k \in 1..3 : dstOff[k] + ext[k] <= alloc.dims[k] /\ srcOff[k] + ext[k] <= alloc.dims[k]
    /\ alloc' = AllocationCopyRange(alloc, dstOff, ext, srcOff)
    /\ log' = Annotate(pending, TransferCalls(fn))
    /\ lastCall' = Call(op, FALSE, TRUE, "", 0, <<dstOff[1], ext[1] * ext[2] * ext[3], 0, 0>>)
    /\ UNCHANGED <<tablesAndQueues, objVars, sent, javaData, elemVars>>

nAllocationData2D_alloc(dstXoff, dstYoff, width, height, srcXoff, srcYoff) ==
    CopyDone("nAllocationData2D_alloc", "AllocationCopy2DRange",
             <<dstXoff, dstYoff, 0>>, <<width, height, 1>>, <<srcXoff, srcYoff, 0>>)

nAllocationData3D_alloc(dstOff, width, height, depth, srcOff) ==
    CopyDone("nAllocationData3D_alloc", "AllocationCopy3DRange",
             dstOff, <<width, height, depth>>, srcOff)

\* nAllocationSyncAll: dispatchTab.AllocationSyncAll(con, a, bits).  aux holds
\* the bits handed to the backend and the bits the caller gave.
nAllocationSyncAll(bits) ==
    /\ dispatchTab["AllocationSyncAll"] # NULL
    /\ alloc.made
    /\ log' = Annotate(pending, <<BCall("dispatchTab", "AllocationSyncAll", "con")>>)
    /\ lastCall' = Call("nAllocationSyncAll", FALSE, TRUE, "", 0, <<bits, bits>>)
    /\ UNCHANGED <<tablesAndQueues, objVars, sent, javaData, alloc, elemVars>>

\* Every write, every read, the two copies and the sync.
NextSync ==
    \/ NextWrite
    \/ \E T \in ReadTypes :
          /\ CallerHolds("con")
          /\ Read(ReadOp[T], T, [k \in 1..1 |-> 0])
    \/ \E dx \in 0..1, w \in 0..1, sx \in 0..1 :
          CallerHolds("con") /\ nAllocationData2D_alloc(dx, 0, w, 1, sx, 0)
    \/ \E dx \in 0..1, w \in 0..1, sx \in 0..1 :
          CallerHolds("con") /\ nAllocationData3D_alloc(<<dx, 0, 0>>, w, 1, 1, <<sx, 0, 0>>)
    \/ \E bits \in 1..2 : CallerHolds("con") /\ nAllocationSyncAll(bits)

SpecSync == InitHandoffSpec /\ [][NextSync]_vars

TransferOps ==
    WriteOps \cup {ReadOp[T] : T \in ReadTypes}
             \cup {"nAllocationData2D_alloc", "nAllocationData3D_alloc"}

\* C23: no Write or Read performs a Sync: each data, element-data, copy-range
\* and read entry point issues exactly one backend call, which is not
\* AllocationSyncAll; AllocationSyncAll is issued only by nAllocationSyncAll,
\* once, with the usage bits the caller gave.
C23_TransfersDoNotSync ==
    /\ lastCall.op \in TransferOps =>
          Len(log) = 1 /\ log[1].call.fn # "AllocationSyncAll"
    /\ (/\ lastCall.op \notin LoadOps
        /\ \E i \in 1..Len(log) : log[i].call.fn = "AllocationSyncAll") =>
          /\ lastCall.op = "nAllocationSyncAll"
          /\ Len(log) = 1
          /\ lastCall.aux[1] = lastCall.aux[2]

\* C23 witness: a 2D copy between Allocations has just issued its one backend
\* call, AllocationCopy2DRange, on an Allocation a write had filled.
C23_Witness ==
    /\ lastCall.op = "nAllocationData2D_alloc"
    /\ lastCall.aux[2] = 1
    /\ Len(log) = 1
    /\ log[1].call.fn = "AllocationCopy2DRange"
    /\ \E j \in 1..Len(alloc.bytes) : alloc.bytes[j] # 0

\* C27: ElementGetSubElements with capacity c on an Element of n direct
\* sub-fields writes exactly min(c, n) entries into the caller's ids, names and
\* array-sizes arrays, each equal to the corresponding sub-field, and leaves
\* the entries from min(c, n) on unchanged.
C27_FillsUpToCapacityOnly ==
    lastCall.op = "nElementGetSubElements" =>
        LET c == Len(elemIo.before.ids)
            n == Len(element.fields)
        IN /\ lastCall.ok
           /\ \A i \in 1..c :
                IF i <= n
                THEN /\ elemIo.after.ids[i] = element.fields[i].id
                     /\ elemIo.after.names[i] = element.fields[i].name
                     /\ elemIo.after.arraySizes[i] = element.fields[i].size
                ELSE /\ elemIo.after.ids[i] = elemIo.before.ids[i]
                     /\ elemIo.after.names[i] = elemIo.before.names[i]
                     /\ elemIo.after.arraySizes[i] = elemIo.before.arraySizes[i]

----------------------------------------------------------------------------
(* GetBitmapSize (lines 499-510) *)

\* Unsigned integers are sequences of bytes, least significant first, so that
\* 32-bit and 64-bit values stay within reach: n as k bytes.
RECURSIVE ToLimbs(_, _)
ToLimbs(n, k) == IF k = 0 THEN <<>> ELSE <<n % 256>> \o ToLimbs(n \div 256, k - 1)

\* The value extended with zeros, or cut, to k bytes: a conversion between
\* unsigned types.
Convert(a, k) == [i \in 1..k |-> IF i <= Len(a) THEN a[i] ELSE 0]

\* The product of a and b in an unsigned type of k bytes: the low k bytes.
RECURSIVE MulFrom(_, _, _, _, _)
MulFrom(a, b, k, j, carry) ==
    IF j > k THEN <<>>
    ELSE LET col == carry + SumSeq([i \in 1..j |-> Convert(a, k)[i] * Convert(b, k)[j - i + 1]])
         IN <<col % 256>> \o MulFrom(a, b, k, j + 1, col \div 256)

Mul(a, b, k) == MulFrom(a, b, k, 1, 0)

\* (a faulty variant that takes four bytes for every pixel)
BytesPerPixel_Always4(format) == 4

\* The switch of GetBitmapSize (lines 504-508); any other format leaves s as it is.
BytesPerPixel(format) ==
    CASE format = "RGBA_8888" -> 4
      [] format = "RGB_565" -> 2
      [] format = "RGBA_4444" -> 2
      [] OTHER -> 1

\* GetBitmapSize: info.width * info.height is a product of two uint32_t, so it
\* is taken in 32 bits before it becomes the size_t s (line 503); s *= 4 or 2
\* is taken in size_t, which is sizeT bytes wide in the build at hand.
BitmapSize(width, height, format, sizeT) ==
    LET s == Convert(Mul(width, height, 4), sizeT)
    IN Mul(s, ToLimbs(BytesPerPixel(format), 1), sizeT)

GetBitmapSize(width, height, format, sizeT) ==
    /\ lastCall' = Call("GetBitmapSize", FALSE, TRUE, format, sizeT,
                        <<width, height, BitmapSize(width, height, format, sizeT)>>)
    /\ UNCHANGED <<coreVars, jniVars>>

MaxDim == 3

\* Widths and heights: the small ones, 2^16, 2^31 and 2^32 - 1.
Dims == {ToLimbs(n, 4) : n \in 0..MaxDim}
            \cup {<<0, 0, 1, 0>>, <<0, 0, 0, 128>>, <<255, 255, 255, 255>>}

Formats == {"RGBA_8888", "RGB_565", "RGBA_4444", "A_8"}

NextBitmapSize ==
    \E width \in Dims, height \in Dims, format \in Formats, sizeT \in {4, 8} :
        GetBitmapSize(width, height, format, sizeT)

SpecBitmapSize == InitHandoffSpec /\ [][NextBitmapSize]_vars

\* width * height * bytesPerPixel as the exact product, in nine bytes.
ExactSize(width, height, bytesPerPixel) ==
    Mul(Mul(width, height, 9), ToLimbs(bytesPerPixel, 1), 9)

\* C29: GetBitmapSize returns width * height * bytesPerPixel (4 for RGBA_8888,
\* 2 for RGB_565 and RGBA_4444, 1 for any other format) as the exact product,
\* with no wrap-around, for every width and height in the unsigned 32-bit range.
C29_BitmapSizeIsExact ==
    lastCall.op = "GetBitmapSize" =>
        Convert(lastCall.aux[3], 9)
            = ExactSize(lastCall.aux[1], lastCall.aux[2],
                        IF lastCall.why = "RGBA_8888" THEN 4
                        ELSE IF lastCall.why \in {"RGB_565", "RGBA_4444"} THEN 2 ELSE 1)

----------------------------------------------------------------------------
(* Copies between an Allocation and a bitmap (lines 571-605) *)

\* The number a sequence of bytes stands for.
RECURSIVE Value(_)
Value(a) == IF a = <<>> THEN 0 ELSE Head(a) + 256 * Value(Tail(a))

\* The bitmaps of the model: one RGBA_8888 pixel, and two A_8 pixels in a row.
Bitmaps ==
    {[width |-> 1, height |-> 1, format |-> "RGBA_8888", pixels |-> [k \in 1..4 |-> v]]
        : v \in ByteVals}
    \cup {[width |-> 2, height |-> 1, format |-> "A_8", pixels |-> [k \in 1..2 |-> v]]
            : v \in ByteVals}

\* What a copy leaves: the Allocation and the bitmap's pixels as the backend
\* left them when the lock yielded pixels, both untouched otherwise.
BitmapCopy(op, fn, bitmap, pixels, r, pixelsAfter) ==
    /\ dispatchTab[fn] # NULL
    /\ alloc.made
    /\ LET steps == BitmapSteps(pixels, fn)
       IN /\ log' = Annotate(pending, StepCalls(steps))
          /\ held' = StillLocked(steps)
          /\ lastCall' = Call(op, pixels, pixels /\ r.why = "", IF pixels THEN r.why ELSE "",
                              0, <<steps, "copy">>)
    /\ alloc' = IF pixels THEN r.a ELSE alloc
    /\ javaData' = [before |-> JArray(FALSE, bitmap.pixels),
                    after |-> JArray(FALSE, IF pixels THEN pixelsAfter ELSE bitmap.pixels)]
    /\ UNCHANGED <<tablesAndQueues, sent, elemVars, objs, group>>

\* nAllocationCopyFromBitmap: Allocation2DData of the whole bitmap at the
\* origin, GetBitmapSize bytes (lines 581-584).
nAllocationCopyFromBitmap(bitmap, pixels) ==
    \E sizeT \in {4, 8} :
        LET size == Value(BitmapSize(ToLimbs(bitmap.width, 4), ToLimbs(bitmap.height, 4),
                                     bitmap.format, sizeT))
        IN BitmapCopy("nAllocationCopyFromBitmap", "Allocation2DData", bitmap, pixels,
                      AllocationData(alloc, <<0, 0, 0>>, <<bitmap.width, bitmap.height, 1>>,
                                     bitmap.pixels, size),
                      bitmap.pixels)

\* nAllocationCopyToBitmap: AllocationCopyToBitmap into the pixels, GetBitmapSize
\* bytes (lines 599-601); the caller's bitmap is no larger than the Allocation.
nAllocationCopyToBitmap(bitmap, pixels) ==
    \E sizeT \in {4, 8} :
        LET size == Value(BitmapSize(ToLimbs(bitmap.width, 4), ToLimbs(bitmap.height, 4),
                                     bitmap.format, sizeT))
        IN /\ size <= Len(alloc.bytes)
           /\ BitmapCopy("nAllocationCopyToBitmap", "AllocationCopyToBitmap", bitmap, pixels,
                         Outcome("", alloc), AllocationRead(alloc, bitmap.pixels, size))

NextBitmap ==
    \/ nLoadSO(FALSE)
    \/ \E made \in BOOLEAN : nContextCreate(made)
    \/ \E type \in AllocTypes, made \in BOOLEAN :
          CallerHolds("con") /\ nAllocationCreateTyped(type, made)
    \/ \E pixels \in BOOLEAN, made \in BOOLEAN :
          CallerHolds("con") /\ nAllocationCreateFromBitmap(pixels, made)
    \/ \E pixels \in BOOLEAN, made \in BOOLEAN :
          CallerHolds("con") /\ nAllocationCreateBitmapBackedAllocation(pixels, made)
    \/ \E pixels \in BOOLEAN, made \in BOOLEAN :
          CallerHolds("con") /\ nAllocationCubeCreateFromBitmap(pixels, made)
    \/ \E bitmap \in Bitmaps, pixels \in BOOLEAN :
          CallerHolds("con") /\ nAllocationCopyFromBitmap(bitmap, pixels)
    \/ \E bitmap \in Bitmaps, pixels \in BOOLEAN :
          CallerHolds("con") /\ nAllocationCopyToBitmap(bitmap, pixels)

SpecBitmap == InitHandoffSpec /\ [][NextBitmap]_vars

BitmapOps ==
    {"nAllocationCreateFromBitmap", "nAllocationCreateBitmapBackedAllocation",
     "nAllocationCubeCreateFromBitmap", "nAllocationCopyFromBitmap",
     "nAllocationCopyToBitmap"}

HowOften(steps, e) == Cardinality({i \in 1..Len(steps) : steps[i] = e})

\* C22: in each of the five bitmap operations a successful pixel lock is
\* followed by exactly one unlock before the operation returns, the backend is
\* called only between the lock and the unlock, and after any sequence of such
\* operations no bitmap is left locked.
C22_LockIsPairedWithUnlock ==
    /\ held = {}
    /\ lastCall.op \in BitmapOps =>
          LET steps == lastCall.aux[1]
          IN IF lastCall.flag
             THEN /\ HowOften(steps, "lock") = 1
                  /\ HowOften(steps, "unlock") = 1
                  /\ steps[1] = "lock"
                  /\ steps[Len(steps)] = "unlock"
                  /\ Len(log) = Len(steps) - 2
             ELSE steps = <<>> /\ log = <<>>

\* C22 witness: nAllocationCopyToBitmap locked the bitmap, had the backend
\* overwrite its pixels from the Allocation, and unlocked it.
C22_Witness ==
    /\ lastCall.op = "nAllocationCopyToBitmap"
    /\ lastCall.aux[1] = <<"lock", "AllocationCopyToBitmap", "unlock">>
    /\ Len(log) = 1
    /\ javaData.after.ints # javaData.before.ints
    /\ held = {}

\* C30: an Allocation created by nAllocationCreateBitmapBackedAllocation never
\* refers to pixel memory that is not locked: while its handle is live and its
\* memory is the bitmap's pixel address, the bitmap is locked.
C30_BackedPixelsStayLocked ==
    (/\ lastCall.op = "nAllocationCreateBitmapBackedAllocation"
     /\ lastCall.ret # 0
     /\ objs[lastCall.ret] = "Allocation"
     /\ lastCall.aux[2] = "pixels")
        => "pixels" \in held

====
